---- MODULE Spec2Model ----
(***************************************************************************)
(* Audio delivery pipeline of the realtime backend: the control API        *)
(* (mobile_api.rs), the stream thread, the production worker, the          *)
(* telemetry thread and the hardware callback (audio_io.rs); and the noise *)
(* engine (streaming_noise.rs): the double-buffered noise source with its  *)
(* regeneration worker, the preset resolution and the sweep engine.        *)
(*                                                                         *)
(* Samples are labelled: the k-th sample the scheduler ever produces has   *)
(* the value k (k >= 1), and 0.0 is the initial last_sample.  A delivered  *)
(* sample is an exact fraction <<num, den>>, so that the cross-fade        *)
(* last*(1-alpha) + sample*alpha with alpha = (idx+1)/copied is            *)
(* <<last*(copied-idx-1) + sample*(idx+1), copied>>.                       *)
(***************************************************************************)
EXTENDS Integers, Sequences, FiniteSets, TLC

(***************************************************************************)
(* Bounds of the model.  The first two are the program's sizes scaled down *)
(* (512 frames per block, 1024 commands); the others bound the inputs.     *)
(***************************************************************************)
AUDIO_WORKER_BLOCK_FRAMES == 2
COMMAND_RING_CAPACITY == 2
MaxSampleRate == 2
MaxCallbackFrames == 2
\* PipeSpec: callbacks of one behaviour; CmdSpec: control calls of one
MaxCallbacks == 3
MaxControlCalls == 3
\* Spec, the whole system: callbacks and control calls of one behaviour
SpecCallbacks == 1
SpecControlCalls == 1

\* the noise source, scaled: CROSSFADE_SAMPLES is 2048, UNDERRUN_FADE_SAMPLES
\* 512, default_size 1 << 15 and the smallest buffer 8 in the source
CROSSFADE_SAMPLES == 4
UNDERRUN_FADE_SAMPLES == 3
default_size == 10
MinSize == 2
MaxNoiseCalls == 20
MaxRegenPanics == 1

\* regenerations that may return a silent buffer
MaxSilentBuffers == 1

\* next() calls of a run in which regenerations may return silence
MaxLockCalls == 12

\* samples of a renormalisation measurement window, scaled from 16384
RENORM_WINDOW == 3

\* the sweep engine, scaled: BLOCK_SIZE is 2048 and the default cascade
\* count 10 in the source
BLOCK_SIZE == 4
DefaultCasc == 2
MaxCasc == 2
MaxSweeps == 2
MaxUpdates == 2
MaxBlocks == 2
\* the blocks after which the accumulator ring has wrapped around
RingBlocks == 5

\* API callers (threads), and the calls they make together
MaxCallers == 2
MaxApiCalls == 3
\* the calls a single thread makes
MaxSerialCalls == 4
\* the calls made while the workers and callbacks run
MaxQueueCalls == 2

(***************************************************************************)
(* Program constants.                                                      *)
(***************************************************************************)
channels == 2
\* seconds as exact fractions <<numerator, denominator>>: 0.5 and 2.0
AUDIO_RING_MIN_SECONDS == <<1, 2>>
AUDIO_RING_MAX_SECONDS == <<2, 1>>

Min(a, b) == IF a <= b THEN a ELSE b
Max(a, b) == IF a >= b THEN a ELSE b
\* ceil(a / b) for a >= 0, b > 0
CeilDiv(a, b) == (a + b - 1) \div b
\* usize::saturating_sub
saturating_sub(a, b) == IF a >= b THEN a - b ELSE 0

\* ((sample_rate as f32 * seconds).ceil() as usize).saturating_mul(channels)
samples_for_seconds(sample_rate, seconds, ch) ==
    CeilDiv(sample_rate * seconds[1], seconds[2]) * ch

\* low watermark of worker and callback
min_samples(sample_rate) ==
    samples_for_seconds(sample_rate, AUDIO_RING_MIN_SECONDS, channels)

\* high watermark, which is also the capacity the ring is built with
max_samples(sample_rate) ==
    Max(samples_for_seconds(sample_rate, AUDIO_RING_MAX_SECONDS, channels),
        AUDIO_WORKER_BLOCK_FRAMES * channels)

\* block.len()
BlockLen == AUDIO_WORKER_BLOCK_FRAMES * channels

(***************************************************************************)
(* Inputs.                                                                 *)
(***************************************************************************)
SampleRates == 1..MaxSampleRate
\* what the host's default output device is when a session is started
DeviceKinds == {"none", "noconfig", "i16", "buildfail", "playfail", "f32"}
\* mutant: buffers of any length, odd ones too
CallbackLens_any == 1..(channels * MaxCallbackFrames)
\* the callback buffers the hardware hands over: whole stereo frames
CallbackLens == {channels * f : f \in 1..MaxCallbackFrames}
\* the control calls that enqueue a command
CommandKinds == {"SetPaused(true)", "SetPaused(false)", "SetMasterGain",
                 "UpdateTrack", "PushClipSamples", "StartFrom", "EnableGpu"}
\* content of a callback slot the callback has not written
Junk == <<0, 0>>

VARIABLES
    device,          \* [kind, sample_rate]: the default output device
    telemetry,       \* the audio-telemetry feature is compiled in
    ENGINE,          \* the global engine slot: "None" or "Some"
    start_result,    \* what start_audio_session returned: "none", "Ok", "Err"
    cmd_rb,          \* the command ring of the session, oldest first
    stop_chan,       \* messages in the stop channel
    stream,          \* the stream thread: [pc, open]
    stop_flag,       \* the AtomicBool shared by stream thread and worker
    tel_pc,          \* the telemetry thread
    worker,          \* the production worker: [pc, observed, target, vacant, samples_to_write, iter, inner_exit]
    block,           \* the worker's block buffer
    rb,              \* the audio ring: [buf, read, write, cap]
    scheduler,       \* [absolute_sample, applied]
    elapsed_samples, \* PlaybackState.elapsed_samples
    cb,              \* the hardware callback: [pc, len, available]
    last_sample,     \* the callback's held sample
    data,            \* the buffer of the latest callback
    hist,            \* history: what was submitted, accepted, popped, observed
    budget,          \* [callbacks, calls]: what the environment may still do
    gen,             \* the FftNoiseGenerator of the noise source
    req_chan,        \* NoiseGenRequest channel, oldest first
    res_chan,        \* NoiseGenResponse channel, oldest first
    nw,              \* the AsyncNoiseWorker thread: [pc, buffer, panics]
    nhist,           \* history of the noise source: requests, responses, output
    nbudget,         \* [calls, panics]: next() calls and regeneration panics left
    sn,              \* the sweep state of a StreamingNoise engine
    fft_params,      \* what FftNoiseGenerator::new resolved from NoiseParams
    renorm,          \* the post-filter renormalisation state of the generator
    ola,             \* a StreamingNoise engine with its overlap-add signal path
    app              \* API callers and the audio sessions they started

vars == <<device, telemetry, ENGINE, start_result, cmd_rb, stop_chan, stream,
          stop_flag, tel_pc, worker, block, rb, scheduler, elapsed_samples,
          cb, last_sample, data, hist, budget, gen, req_chan, res_chan, nw,
          nhist, nbudget, sn, fft_params, renorm, ola, app>>

\* the state of the delivery pipeline
deliveryVars == <<device, telemetry, ENGINE, start_result, cmd_rb, stop_chan,
                  stream, stop_flag, tel_pc, worker, block, rb, scheduler,
                  elapsed_samples, cb, last_sample, data, hist, budget, app>>

\* the state of the noise synthesis engine
synthVars == <<gen, req_chan, res_chan, nw, nhist, nbudget, sn, fft_params,
               renorm, ola>>

\* the state of the signal path: renormalisation and overlap-add
signalVars == <<renorm, ola>>

(***************************************************************************)
(* The audio ring (ringbuf::HeapRb<f32>): read and write indices run       *)
(* modulo 2 * capacity, slot i of the storage is index i modulo capacity.  *)
(***************************************************************************)
NoRing == [buf |-> <<>>, read |-> 0, write |-> 0, cap |-> 0]

\* HeapRb::<f32>::new(max_samples)
NewRing(capacity) ==
    [buf |-> [i \in 0..(capacity - 1) |-> 0], read |-> 0, write |-> 0,
     cap |-> capacity]

occupied_len(r) == (2 * r.cap + r.write - r.read) % (2 * r.cap)

vacant_len(r) == (r.cap + r.read - r.write + 2 * r.cap) % (2 * r.cap)

\* how many elements push_slice takes from a slice of n elements
PushCount(r, n) == Min(vacant_len(r), n)

\* producer.push_slice(&block[..n]): the ring after the push
push_slice(r, elems, n) ==
    LET k == PushCount(r, n)
    IN [r EXCEPT
          !.buf = [i \in DOMAIN r.buf |->
                     LET off == (i - r.write + 2 * r.cap) % r.cap
                     IN IF off < k THEN elems[off + 1] ELSE r.buf[i]],
          !.write = (r.write + k) % (2 * r.cap)]

\* mutant: pop_slice reports the whole slice as copied
PopCount_whole_slice(r, n) == n

\* how many elements pop_slice copies into a slice of n elements
PopCount(r, n) == Min(occupied_len(r), n)

\* the elements pop_slice copies, oldest first
PopElems(r, n) ==
    [j \in 1..PopCount(r, n) |-> r.buf[(r.read + j - 1) % r.cap]]

\* consumer.pop_slice(data): the ring after the pop
pop_slice(r, n) ==
    [r EXCEPT !.read = (r.read + PopCount(r, n)) % (2 * r.cap)]

(***************************************************************************)
(* The scheduler, through its narrow contract: process_block fills the     *)
(* buffer with the next samples of its timeline, handle_command takes a    *)
(* command.                                                                *)
(***************************************************************************)
\* the samples process_block writes into block[..n]
ProcessBlockSamples(s, n) ==
    [i \in 1..n |-> s.absolute_sample * channels + i]

\* the scheduler after process_block(&mut block[..n])
process_block(s, n) ==
    [s EXCEPT !.absolute_sample = s.absolute_sample + (n \div channels)]

\* the scheduler after handle_command(cmd)
handle_command(s, cmd) == [s EXCEPT !.applied = Append(s.applied, cmd)]

(***************************************************************************)
(* The noise source (streaming_noise.rs): FftNoiseGenerator and its        *)
(* AsyncNoiseWorker.  A buffer is [id, zero, len]: id is the request whose *)
(* regeneration filled it (0: never regenerated), zero says that it holds  *)
(* only zeros, len is its length.                                          *)
(***************************************************************************)
\* bounded::<NoiseGenRequest>(2), bounded::<NoiseGenResponse>(2)
NOISE_CHANNEL_CAPACITY == 2

\* vec![0.0; size]
ZeroBuffer(size) == [id |-> 0, zero |-> TRUE, len |-> size]

\* Vec::new(), what std::mem::take leaves behind
EmptyBuffer == ZeroBuffer(0)

\* Option: <<>> for None and <<v>> for Some(v)
None == <<>>

Some(v) == <<v>>

\* (duration_seconds.max(0.0) * sample_rate) as usize
Requested == 0..default_size

\* the buffer size FftNoiseGenerator::new chooses
BufferSize(requested) ==
    LET chosen == IF requested > 0 /\ requested < default_size
                  THEN requested
                  ELSE default_size
        floored == IF chosen < MinSize THEN MinSize ELSE chosen
    IN IF floored % 2 # 0 THEN floored + 1 ELSE floored

NoGen ==
    [pc |-> "unbuilt", size |-> 0, buffer |-> EmptyBuffer,
     next_buffer_storage |-> EmptyBuffer, next_buffer_ready |-> FALSE,
     cursor |-> 0, worker_requested |-> FALSE,
     underrun_recovering |-> FALSE, underrun_fade_pos |-> 0]

\* target_rms is the locked RMS, named by the request whose buffer set it;
\* scaled_to is the RMS the buffer at hand was scaled to, if it was
NoNoiseWorker ==
    [pc |-> "none", buffer |-> EmptyBuffer, id |-> 0, panicked |-> FALSE,
     silent |-> FALSE, target_rms |-> None, scaled_to |-> None]

NoSample == [head |-> <<>>, tail |-> <<>>]

NoNoiseHistory ==
    [sent |-> 0, received |-> 0, responses |-> <<>>,
     entry |-> [cursor |-> 0, ready |-> FALSE, requested |-> FALSE],
     sent_now |-> FALSE, send_failed |-> FALSE,
     out |-> NoSample, blended |-> <<>>, swap |-> <<>>,
     und |-> 0, recycled |-> EmptyBuffer, abandoned |-> 0]

NoEngine == [pc |-> "unbuilt", budget |-> [updates |-> 0, blocks |-> 0]]

NoParams == [built |-> FALSE]

NoRenorm == [pc |-> "unbuilt", samples_left |-> 0]

NoOla == [pc |-> "unbuilt"]

NoApp == [pc |-> "unbuilt"]

\* no noise engine exists
SynthIdle ==
    /\ gen = NoGen
    /\ req_chan = <<>>
    /\ res_chan = <<>>
    /\ nw = NoNoiseWorker
    /\ nhist = NoNoiseHistory
    /\ nbudget = [calls |-> 0, panics |-> 0, silent |-> 0]
    /\ sn = NoEngine
    /\ fft_params = NoParams
    /\ renorm = NoRenorm
    /\ ola = NoOla

(***************************************************************************)
(* Initial state: nothing started.                                         *)
(***************************************************************************)
IdleWorker ==
    [pc |-> "none", observed |-> 0, target |-> 0, vacant |-> 0,
     samples_to_write |-> 0, iter |-> "first", inner_exit |-> "none"]

NoHistory ==
    [submitted |-> 0, accepted |-> <<>>, cycle |-> <<>>, popped |-> <<>>,
     underflow |-> FALSE,
     callback |-> [done |-> FALSE, copied |-> 0, after_underflow |-> FALSE,
                   crossfaded |-> FALSE]]

DeliveryState(callbacks, calls, rates, kinds, features) ==
    /\ device \in [kind : kinds, sample_rate : rates]
    /\ telemetry \in features
    /\ ENGINE = "None"
    /\ start_result = "none"
    /\ cmd_rb = <<>>
    /\ stop_chan = 0
    /\ stream = [pc |-> "none", open |-> FALSE]
    /\ stop_flag = FALSE
    /\ tel_pc = "none"
    /\ worker = IdleWorker
    /\ block = [i \in 1..BlockLen |-> 0]
    /\ rb = NoRing
    /\ scheduler = [absolute_sample |-> 0, applied |-> <<>>]
    /\ elapsed_samples = 0
    /\ cb = [pc |-> "idle", len |-> 0, available |-> 0]
    /\ last_sample = 0
    /\ data = <<>>
    /\ hist = NoHistory
    /\ budget = [callbacks |-> callbacks, calls |-> calls]

\* the delivery pipeline of one session, no concurrent API callers
DeliveryInit(callbacks, calls, rates, kinds, features) ==
    /\ DeliveryState(callbacks, calls, rates, kinds, features)
    /\ app = NoApp

\* a session of the delivery pipeline, with no noise engine under test
InitWith(callbacks, calls, rates, kinds, features) ==
    /\ DeliveryInit(callbacks, calls, rates, kinds, features)
    /\ SynthIdle

\* the whole system, any device, with and without telemetry
Init ==
    InitWith(SpecCallbacks, SpecControlCalls, SampleRates, DeviceKinds,
             BOOLEAN)

\* delivery pipeline: a working device, no control calls
PipeInit == InitWith(MaxCallbacks, 0, SampleRates, {"f32"}, {FALSE})

\* command path: a working device at the lowest rate, no callbacks
CmdInit == InitWith(0, MaxControlCalls, {1}, {"f32"}, {FALSE})

pipeVars == <<stream, stop_flag, tel_pc, worker, block, rb, scheduler,
              elapsed_samples, cb, last_sample, data>>

(***************************************************************************)
(* The control API (mobile_api.rs).  Every call runs under the ENGINE      *)
(* mutex, so calls are atomic with respect to each other.                  *)
(***************************************************************************)
\* the stop channel after stop_audio_session took the engine state, if any
StopSignal == IF ENGINE = "Some" THEN stop_chan + 1 ELSE stop_chan

stop_audio_session ==
    /\ stop_chan' = StopSignal
    /\ ENGINE' = "None"
    /\ UNCHANGED <<synthVars, app, device, telemetry, start_result, cmd_rb, hist, budget>>
    /\ UNCHANGED pipeVars

\* whether start_audio_session gets past its own checks
StartChecksPass(json_ok) ==
    /\ json_ok
    /\ device.kind # "none"
    /\ device.kind # "noconfig"

\* one session is started per behaviour
start_audio_session(json_ok) ==
    /\ start_result = "none"
    /\ IF StartChecksPass(json_ok)
       THEN /\ start_result' = "Ok"
            /\ cmd_rb' = <<>>
            /\ stop_chan' = 0
            /\ stream' = [pc |-> "setup", open |-> FALSE]
            /\ ENGINE' = "Some"
       ELSE /\ start_result' = "Err"
            /\ stop_chan' = StopSignal
            /\ ENGINE' = "None"
            /\ UNCHANGED <<cmd_rb, stream>>
    /\ UNCHANGED <<synthVars, app, device, telemetry, hist, budget>>
    /\ UNCHANGED <<stop_flag, tel_pc, worker, block, rb, scheduler,
                   elapsed_samples, cb, last_sample, data>>

\* state.command_producer.try_push(cmd) succeeds
try_push_ok == ENGINE = "Some" /\ Len(cmd_rb) < COMMAND_RING_CAPACITY

\* if let Some(state) = guard.as_mut() { let _ = try_push(cmd); }
ControlCall(kind) ==
    /\ budget.calls > 0
    /\ budget' = [budget EXCEPT !.calls = @ - 1]
    /\ LET cmd == <<kind, hist.submitted + 1>>
       IN /\ cmd_rb' = IF try_push_ok THEN Append(cmd_rb, cmd) ELSE cmd_rb
          /\ hist' = [hist EXCEPT
                        !.submitted = @ + 1,
                        !.accepted = IF try_push_ok THEN Append(@, cmd) ELSE @]
    /\ UNCHANGED <<synthVars, app, device, telemetry, ENGINE, start_result, stop_chan>>
    /\ UNCHANGED pipeVars

pause_audio == ControlCall("SetPaused(true)")

resume_audio == ControlCall("SetPaused(false)")

set_volume == ControlCall("SetMasterGain")

push_clip_chunk == ControlCall("PushClipSamples")

start_from == ControlCall("StartFrom")

enable_gpu == ControlCall("EnableGpu")

\* invalid JSON returns the error before the engine is looked at
update_session(json_ok) ==
    IF json_ok
    THEN ControlCall("UpdateTrack")
    ELSE /\ budget.calls > 0
         /\ budget' = [budget EXCEPT !.calls = @ - 1]
         /\ UNCHANGED <<synthVars, app, device, telemetry, ENGINE, start_result, cmd_rb,
                        stop_chan, hist>>
         /\ UNCHANGED pipeVars

(***************************************************************************)
(* The stream thread (run_audio_stream, the cpal backend).                 *)
(***************************************************************************)
\* the thread reaches spawn_audio_worker: device and default config exist
SetupReachesWorker == device.kind \notin {"none", "noconfig"}

\* the stream is built and playing: F32 format, build and play succeed
SetupPlays == device.kind = "f32"

\* from entry to stream.play(): the ring, the worker and the telemetry
\* thread are created before the sample format is matched
StreamSetup ==
    /\ stream.pc = "setup"
    /\ IF SetupReachesWorker
       THEN /\ rb' = NewRing(max_samples(device.sample_rate))
            /\ worker' = [IdleWorker EXCEPT !.pc = "loop"]
            /\ tel_pc' = IF telemetry THEN "wait" ELSE "none"
            /\ stream' = IF SetupPlays
                         THEN [pc |-> "wait", open |-> TRUE]
                         ELSE [pc |-> "panicked", open |-> FALSE]
       ELSE /\ stream' = [pc |-> "panicked", open |-> FALSE]
            /\ UNCHANGED <<rb, worker, tel_pc>>
    /\ UNCHANGED <<synthVars, app, device, telemetry, ENGINE, start_result, cmd_rb, stop_chan,
                   stop_flag, block, scheduler, elapsed_samples, cb,
                   last_sample, data, hist, budget>>

\* stop_rx.recv_timeout(100 ms) returns Ok: the loop ends.  An Err (timeout
\* or disconnected) repeats the loop and changes nothing.
StreamReceiveStop ==
    /\ stream.pc = "wait"
    /\ stop_chan > 0
    /\ stop_chan' = stop_chan - 1
    /\ stream' = [stream EXCEPT !.pc = "store"]
    /\ UNCHANGED <<synthVars, app, device, telemetry, ENGINE, start_result, cmd_rb, stop_flag,
                   tel_pc, worker, block, rb, scheduler, elapsed_samples, cb,
                   last_sample, data, hist, budget>>

\* stop_flag.store(true, Relaxed)
StreamStoreStop ==
    /\ stream.pc = "store"
    /\ stop_flag' = TRUE
    /\ stream' = [stream EXCEPT !.pc = "return"]
    /\ UNCHANGED <<synthVars, app, device, telemetry, ENGINE, start_result, cmd_rb, stop_chan,
                   tel_pc, worker, block, rb, scheduler, elapsed_samples, cb,
                   last_sample, data, hist, budget>>

\* the function returns and drops the stream; a callback in progress ends
\* first
StreamReturn ==
    /\ stream.pc = "return"
    /\ cb.pc = "idle"
    /\ stream' = [pc |-> "returned", open |-> FALSE]
    /\ UNCHANGED <<synthVars, app, device, telemetry, ENGINE, start_result, cmd_rb, stop_chan,
                   stop_flag, tel_pc, worker, block, rb, scheduler,
                   elapsed_samples, cb, last_sample, data, hist, budget>>

StreamStep ==
    \/ StreamSetup
    \/ StreamReceiveStop
    \/ StreamStoreStop
    \/ StreamReturn

(***************************************************************************)
(* The telemetry thread (spawn_audio_telemetry_thread): it holds a clone   *)
(* of the stop receiver.  A timeout swaps the counters, logs and repeats.  *)
(***************************************************************************)
TelemetryReceiveStop ==
    /\ tel_pc = "wait"
    /\ stop_chan > 0
    /\ stop_chan' = stop_chan - 1
    /\ tel_pc' = "exited"
    /\ UNCHANGED <<synthVars, app, device, telemetry, ENGINE, start_result, cmd_rb, stream,
                   stop_flag, worker, block, rb, scheduler, elapsed_samples,
                   cb, last_sample, data, hist, budget>>

(***************************************************************************)
(* The production worker (spawn_audio_worker).  Each action is one         *)
(* observation of shared state (the stop flag, the command ring, the       *)
(* ring's indices) with the local computation that follows it.             *)
(***************************************************************************)
\* the worker leaves the inner loop, or skips it: back to the outer test
EndIteration(w, reason, how) ==
    [w EXCEPT !.pc = "loop", !.observed = 0, !.target = 0, !.vacant = 0,
              !.samples_to_write = 0, !.inner_exit = reason, !.iter = how]

\* how an iteration that left the inner loop spent its time
IterationKind(w, reason) ==
    IF w.iter = "producing" THEN "produced"
    ELSE IF reason = "stop" THEN "stopped"
    ELSE "spun"

\* while !stop_flag.load(Relaxed)
WorkerLoop ==
    /\ worker.pc = "loop"
    /\ worker' = [worker EXCEPT !.pc = IF stop_flag THEN "exited" ELSE "drain"]
    /\ UNCHANGED <<synthVars, app, device, telemetry, ENGINE, start_result, cmd_rb, stop_chan,
                   stream, stop_flag, tel_pc, block, rb, scheduler,
                   elapsed_samples, cb, last_sample, data, hist, budget>>

\* mutant: the drain loop stops while one command is still queued
try_pop_none_early(q) == Len(q) <= 1

\* cmd_rx.try_pop() returns None
try_pop_none(q) == q = <<>>

\* mutant: try_pop returns the newest command
try_pop_index_newest(q) == Len(q)

\* the position in the command ring of the command try_pop returns
try_pop_index(q) == 1

\* while let Some(cmd) = cmd_rx.try_pop() { scheduler.handle_command(cmd); }
WorkerDrain ==
    /\ worker.pc = "drain"
    /\ IF try_pop_none(cmd_rb)
       THEN /\ worker' = [worker EXCEPT !.pc = "check", !.iter = "running",
                                        !.inner_exit = "none"]
            /\ hist' = [hist EXCEPT !.cycle = hist.accepted]
            /\ UNCHANGED <<cmd_rb, scheduler>>
       ELSE /\ scheduler' = handle_command(scheduler,
                                           cmd_rb[try_pop_index(cmd_rb)])
            /\ cmd_rb' = [i \in 1..(Len(cmd_rb) - 1) |->
                            IF i < try_pop_index(cmd_rb)
                            THEN cmd_rb[i] ELSE cmd_rb[i + 1]]
            /\ UNCHANGED <<worker, hist>>
    /\ UNCHANGED <<synthVars, app, device, telemetry, ENGINE, start_result, stop_chan, stream,
                   stop_flag, tel_pc, block, rb, elapsed_samples, cb,
                   last_sample, data, budget>>

\* mutant: the worker refills whenever the ring is below the high watermark
BelowLowWatermark_high(occupied) == occupied < max_samples(device.sample_rate)

\* producer.occupied_len() < min_samples
BelowLowWatermark(occupied) == occupied < min_samples(device.sample_rate)

\* max_samples.min(producer.capacity().get())
Target == Min(max_samples(device.sample_rate), rb.cap)

\* if producer.occupied_len() < min_samples { ... } else { sleep }
WorkerCheck ==
    /\ worker.pc = "check"
    /\ worker' = IF BelowLowWatermark(occupied_len(rb))
                 THEN [worker EXCEPT !.pc = "inner",
                                     !.observed = occupied_len(rb),
                                     !.target = Target]
                 ELSE [worker EXCEPT !.pc = "sleep"]
    /\ UNCHANGED <<synthVars, app, device, telemetry, ENGINE, start_result, cmd_rb, stop_chan,
                   stream, stop_flag, tel_pc, block, rb, scheduler,
                   elapsed_samples, cb, last_sample, data, hist, budget>>

\* while producer.occupied_len() < target && !stop_flag.load(Relaxed)
WorkerInner ==
    /\ worker.pc = "inner"
    /\ worker' = IF occupied_len(rb) >= worker.target
                 THEN EndIteration(worker, "reached",
                                   IterationKind(worker, "reached"))
                 ELSE IF stop_flag
                 THEN EndIteration(worker, "stop",
                                   IterationKind(worker, "stop"))
                 ELSE [worker EXCEPT !.pc = "vacant"]
    /\ UNCHANGED <<synthVars, app, device, telemetry, ENGINE, start_result, cmd_rb, stop_chan,
                   stream, stop_flag, tel_pc, block, rb, scheduler,
                   elapsed_samples, cb, last_sample, data, hist, budget>>

\* let vacant = producer.vacant_len(); if vacant == 0 { break; }
WorkerVacant ==
    /\ worker.pc = "vacant"
    /\ worker' = IF vacant_len(rb) = 0
                 THEN EndIteration(worker, "full",
                                   IterationKind(worker, "full"))
                 ELSE [worker EXCEPT !.pc = "size", !.vacant = vacant_len(rb)]
    /\ UNCHANGED <<synthVars, app, device, telemetry, ENGINE, start_result, cmd_rb, stop_chan,
                   stream, stop_flag, tel_pc, block, rb, scheduler,
                   elapsed_samples, cb, last_sample, data, hist, budget>>

\* mutant: the worker always synthesizes a whole block
samples_to_write_whole_block(vacant, target, occupied) == BlockLen

\* vacant.min(block.len()).min(target.saturating_sub(occupied_len())),
\* rounded down to whole frames
samples_to_write(vacant, target, occupied) ==
    (Min(Min(vacant, BlockLen), saturating_sub(target, occupied))
       \div channels) * channels

\* if samples_to_write == 0 { break; }
WorkerSize ==
    /\ worker.pc = "size"
    /\ LET n == samples_to_write(worker.vacant, worker.target,
                                 occupied_len(rb))
       IN worker' = IF n = 0
                    THEN EndIteration(worker, "zero",
                                      IterationKind(worker, "zero"))
                    ELSE [worker EXCEPT !.pc = "process",
                                        !.samples_to_write = n]
    /\ UNCHANGED <<synthVars, app, device, telemetry, ENGINE, start_result, cmd_rb, stop_chan,
                   stream, stop_flag, tel_pc, block, rb, scheduler,
                   elapsed_samples, cb, last_sample, data, hist, budget>>

\* scheduler.process_block(&mut block[..samples_to_write])
WorkerProcess ==
    /\ worker.pc = "process"
    /\ block' = [i \in DOMAIN block |->
                   IF i <= worker.samples_to_write
                   THEN ProcessBlockSamples(scheduler,
                                            worker.samples_to_write)[i]
                   ELSE block[i]]
    /\ scheduler' = process_block(scheduler, worker.samples_to_write)
    /\ worker' = [worker EXCEPT !.pc = "push"]
    /\ UNCHANGED <<synthVars, app, device, telemetry, ENGINE, start_result, cmd_rb, stop_chan,
                   stream, stop_flag, tel_pc, rb, elapsed_samples, cb,
                   last_sample, data, hist, budget>>

\* let pushed = producer.push_slice(..); if pushed == 0 { break; }
\* update_playback_state(..)
WorkerPush ==
    /\ worker.pc = "push"
    /\ rb' = push_slice(rb, block, worker.samples_to_write)
    /\ IF PushCount(rb, worker.samples_to_write) = 0
       THEN /\ worker' = EndIteration(worker, "pushed0",
                                      IterationKind(worker, "pushed0"))
            /\ UNCHANGED elapsed_samples
       ELSE /\ worker' = [worker EXCEPT !.pc = "inner", !.vacant = 0,
                                        !.samples_to_write = 0,
                                        !.iter = "producing"]
            /\ elapsed_samples' = scheduler.absolute_sample
    /\ UNCHANGED <<synthVars, app, device, telemetry, ENGINE, start_result, cmd_rb, stop_chan,
                   stream, stop_flag, tel_pc, block, scheduler, cb,
                   last_sample, data, hist, budget>>

\* thread::sleep(Duration::from_millis(5))
WorkerSleep ==
    /\ worker.pc = "sleep"
    /\ worker' = EndIteration(worker, "none", "slept")
    /\ UNCHANGED <<synthVars, app, device, telemetry, ENGINE, start_result, cmd_rb, stop_chan,
                   stream, stop_flag, tel_pc, block, rb, scheduler,
                   elapsed_samples, cb, last_sample, data, hist, budget>>

WorkerStep ==
    \/ WorkerLoop
    \/ WorkerDrain
    \/ WorkerCheck
    \/ WorkerInner
    \/ WorkerVacant
    \/ WorkerSize
    \/ WorkerProcess
    \/ WorkerPush
    \/ WorkerSleep

(***************************************************************************)
(* The hardware callback (mix_from_ringbuffer, called by audio_callback).  *)
(***************************************************************************)
\* the f32 a slot holds, for a slot that holds a whole number
Value(slot) == slot[1] \div slot[2]

\* *last_sample * (1.0 - alpha) + *sample * alpha, alpha = (idx+1)/fade_len
Blend(last, sample, idx, fade_len) ==
    <<last * (fade_len - (idx + 1)) + sample * (idx + 1), fade_len>>

\* mutant: the fade is applied after an underflow
FadeApplies_after_underflow(available) == hist.underflow

\* if available < low_watermark_samples
FadeApplies(available) == available < min_samples(device.sample_rate)

\* data[..copied] after the pop and the optional fade
Mixed(elems, copied, available, last) ==
    [i \in 1..copied |->
       IF FadeApplies(available)
       THEN Blend(last, elems[i], i - 1, Max(copied, 1))
       ELSE <<elems[i], 1>>]

\* *last_sample after the copied part: data[copied - 1] if anything was copied
HeldSample(mixed, copied, last) ==
    IF copied > 0 THEN Value(mixed[copied]) ELSE last

\* mutant: the rest of the buffer is filled with silence
Filled_silence(buffer, mixed, copied, held) ==
    [i \in DOMAIN buffer |->
       IF i <= copied THEN mixed[i] ELSE <<0, 1>>]

\* for sample in &mut data[copied..] { *sample = *last_sample; }
Filled(buffer, mixed, copied, held) ==
    [i \in DOMAIN buffer |->
       IF i <= copied THEN mixed[i] ELSE <<held, 1>>]

\* the callback is entered with a buffer of len samples and reads
\* consumer.occupied_len()
CallbackEnter(len) ==
    /\ stream.open
    /\ cb.pc = "idle"
    /\ budget.callbacks > 0
    /\ budget' = [budget EXCEPT !.callbacks = @ - 1]
    /\ cb' = [pc |-> "pop", len |-> len, available |-> occupied_len(rb)]
    /\ data' = [i \in 1..len |-> Junk]
    /\ hist' = [hist EXCEPT !.callback.done = FALSE]
    /\ UNCHANGED <<synthVars, app, device, telemetry, ENGINE, start_result, cmd_rb, stop_chan,
                   stream, stop_flag, tel_pc, worker, block, rb, scheduler,
                   elapsed_samples, last_sample>>

\* consumer.pop_slice(data) and the rest of mix_from_ringbuffer
CallbackPop ==
    /\ cb.pc = "pop"
    /\ LET copied == PopCount(rb, cb.len)
           elems == PopElems(rb, cb.len)
           mixed == Mixed(elems, copied, cb.available, last_sample)
           held == HeldSample(mixed, copied, last_sample)
       IN /\ rb' = pop_slice(rb, cb.len)
          /\ data' = Filled(data, mixed, copied, held)
          /\ last_sample' = held
          /\ hist' = [hist EXCEPT
                        !.popped = @ \o elems,
                        !.underflow = copied < cb.len,
                        !.callback =
                            [done |-> TRUE, copied |-> copied,
                             after_underflow |-> hist.underflow,
                             crossfaded |->
                                 \E i \in 1..copied :
                                    mixed[i][1] # elems[i] * mixed[i][2]]]
    /\ cb' = [cb EXCEPT !.pc = "idle"]
    /\ UNCHANGED <<synthVars, app, device, telemetry, ENGINE, start_result, cmd_rb, stop_chan,
                   stream, stop_flag, tel_pc, worker, block, scheduler,
                   elapsed_samples, budget>>

(***************************************************************************)
(* The system.                                                             *)
(***************************************************************************)
Next ==
    \/ \E json_ok \in BOOLEAN : start_audio_session(json_ok)
    \/ stop_audio_session
    \/ pause_audio
    \/ resume_audio
    \/ set_volume
    \/ \E json_ok \in BOOLEAN : update_session(json_ok)
    \/ push_clip_chunk
    \/ start_from
    \/ enable_gpu
    \/ StreamStep
    \/ TelemetryReceiveStop
    \/ WorkerStep
    \/ \E len \in CallbackLens : CallbackEnter(len)
    \/ CallbackPop

Spec == Init /\ [][Next]_vars

\* every thread that can take a step eventually takes one
Fairness ==
    /\ WF_vars(StreamStep)
    /\ WF_vars(TelemetryReceiveStop)
    /\ WF_vars(WorkerStep)
    /\ WF_vars(CallbackPop)

FairSpec == Init /\ [][Next]_vars /\ Fairness

\* the delivery pipeline: session start and stop, stream thread, worker and
\* callback
PipeNext ==
    \/ \E json_ok \in BOOLEAN : start_audio_session(json_ok)
    \/ stop_audio_session
    \/ StreamStep
    \/ WorkerStep
    \/ \E len \in CallbackLens : CallbackEnter(len)
    \/ CallbackPop

PipeSpec == PipeInit /\ [][PipeNext]_vars

\* the command path: the control API, stream thread and worker
CmdNext ==
    \/ \E json_ok \in BOOLEAN : start_audio_session(json_ok)
    \/ stop_audio_session
    \/ pause_audio
    \/ resume_audio
    \/ set_volume
    \/ \E json_ok \in BOOLEAN : update_session(json_ok)
    \/ push_clip_chunk
    \/ start_from
    \/ enable_gpu
    \/ StreamStep
    \/ WorkerStep

CmdSpec == CmdInit /\ [][CmdNext]_vars

(***************************************************************************)
(* The session lifecycle under several API callers (mobile_api.rs          *)
(* start_audio_session, stop_audio_session, update_session; audio_io.rs    *)
(* run_audio_stream).  start_audio_session holds the ENGINE mutex twice:   *)
(* inside its call of stop_audio_session and again for the final store;    *)
(* between the two the mutex is free.  app.ENGINE is 0 for None, else the  *)
(* index of the registered session in app.sessions.                        *)
(***************************************************************************)
IdleCaller == [pc |-> "idle", json_ok |-> TRUE, taken |-> 0]

\* what start_audio_session creates: command ring, stop channel, threads
NewSession ==
    [stream |-> "wait", stop_flag |-> FALSE, worker |-> "top",
     stop_chan |-> 0, stop_sender |-> TRUE, sent |-> FALSE,
     cmd_rb |-> <<>>, applied |-> <<>>, occupied |-> 0]

LifeInitWith(callers, calls) ==
    /\ DeliveryState(0, 0, {1}, {"f32"}, {FALSE})
    /\ SynthIdle
    /\ app = [pc |-> "running", ENGINE |-> 0, calls |-> calls, submitted |-> 0,
              callers |-> [c \in 1..callers |-> IdleCaller],
              sessions |-> <<>>, returns |-> <<>>]

\* calls from several threads
LifeInit == LifeInitWith(MaxCallers, MaxApiCalls)

\* calls from one thread, one after the other
SerialInit == LifeInitWith(1, MaxSerialCalls)

lifeIdle == <<synthVars, pipeVars, telemetry, ENGINE, start_result, cmd_rb,
              stop_chan, hist, budget>>

\* a call of caller c returned
Returned(a, c, call, result, taken) ==
    Append(a.returns,
           [caller |-> c, call |-> call, result |-> result, taken |-> taken,
            slot |-> a.ENGINE,
            cmd |-> IF call = "update_session" THEN a.submitted + 1 ELSE 0,
            queued |-> IF a.ENGINE = 0
                       THEN 0
                       ELSE Len(a.sessions[a.ENGINE].cmd_rb)])

TakeEngine_keeps(slot) == slot

\* guard.take() leaves None in the slot
TakeEngine(slot) == 0

\* state.stop_sender.send(()): the message is queued while the receiver
\* lives; state, and the sender in it, is dropped at the end of the block
StopSent(s) ==
    [s EXCEPT !.stop_chan = IF s.stream = "returned" THEN @ ELSE @ + 1,
              !.stop_sender = FALSE,
              !.sent = TRUE]

\* the body of stop_audio_session, under the mutex
Stopped(a) ==
    IF a.ENGINE = 0
    THEN a
    ELSE [a EXCEPT !.ENGINE = TakeEngine(a.ENGINE),
                   !.sessions[a.ENGINE] = StopSent(@)]

\* *guard = Some(EngineState {..}): the value that was in the slot is
\* dropped, its stop_sender with it, and no message is sent
Dropped(sessions, slot) ==
    IF slot = 0
    THEN sessions
    ELSE [sessions EXCEPT ![slot].stop_sender = FALSE]

Registered(a) ==
    [a EXCEPT !.sessions = Append(Dropped(a.sessions, a.ENGINE), NewSession),
              !.ENGINE = Len(a.sessions) + 1]

\* start_audio_session up to the return of its stop_audio_session() call
StartEnter(c, json_ok) ==
    /\ app.pc = "running"
    /\ app.calls > 0
    /\ app.callers[c].pc = "idle"
    /\ app' = [Stopped(app) EXCEPT
                 !.calls = @ - 1,
                 !.callers[c] = [pc |-> "validate", json_ok |-> json_ok,
                                 taken |-> app.ENGINE]]
    /\ UNCHANGED <<device, lifeIdle>>

\* the rest of start_audio_session: parse, device setup, spawn, store; kind
\* is the default output device the host reports to this call
StartFinish(c, kind) ==
    /\ app.pc = "running"
    /\ app.callers[c].pc = "validate"
    /\ device' = [device EXCEPT !.kind = kind]
    /\ \E json_ok \in {app.callers[c].json_ok}, taken \in {app.callers[c].taken} :
          LET back == [app EXCEPT !.callers[c].pc = "idle"]
          IN  app' = IF StartChecksPass(json_ok)'
                     THEN [Registered(back) EXCEPT
                             !.returns = Returned(app, c, "start_audio_session",
                                                  "Ok", taken)]
                     ELSE [back EXCEPT
                             !.returns = Returned(app, c, "start_audio_session",
                                                  "Err", taken)]
    /\ UNCHANGED lifeIdle

StopCall(c) ==
    /\ app.pc = "running"
    /\ app.calls > 0
    /\ app.callers[c].pc = "idle"
    /\ app' = [Stopped(app) EXCEPT
                 !.calls = @ - 1,
                 !.returns = Returned(app, c, "stop_audio_session", "()",
                                      app.ENGINE)]
    /\ UNCHANGED <<device, lifeIdle>>

\* try_push on the registered session's command ring
Pushed(a, cmd) ==
    IF a.ENGINE # 0 /\ Len(a.sessions[a.ENGINE].cmd_rb) < COMMAND_RING_CAPACITY
    THEN [a EXCEPT !.sessions[a.ENGINE].cmd_rb = Append(@, cmd)]
    ELSE a

\* update_session: the JSON is parsed before the mutex is taken
UpdateCall(c, json_ok) ==
    /\ app.pc = "running"
    /\ app.calls > 0
    /\ app.callers[c].pc = "idle"
    /\ LET counted == [app EXCEPT !.calls = @ - 1, !.submitted = @ + 1]
           cmd == <<"UpdateTrack", app.submitted + 1>>
       IN  app' = IF json_ok
                  THEN [Pushed(counted, cmd) EXCEPT
                          !.returns = Returned(app, c, "update_session", "Ok",
                                               0)]
                  ELSE [counted EXCEPT
                          !.returns = Returned(app, c, "update_session", "Err",
                                               0)]
    /\ UNCHANGED <<device, lifeIdle>>

Sessions == 1..Len(app.sessions)

\* run_audio_stream: recv_timeout returns Ok.  A timeout and a disconnected
\* channel both return Err, and the wait loop repeats.
SessionReceiveStop(s) ==
    /\ app.sessions[s].stream = "wait"
    /\ app.sessions[s].stop_chan > 0
    /\ app' = [app EXCEPT !.sessions[s].stop_chan = @ - 1,
                          !.sessions[s].stream = "store"]
    /\ UNCHANGED <<device, lifeIdle>>

\* stop_flag.store(true), and the function returns
SessionStoreStop(s) ==
    /\ app.sessions[s].stream = "store"
    /\ app' = [app EXCEPT !.sessions[s].stop_flag = TRUE,
                          !.sessions[s].stream = "returned"]
    /\ UNCHANGED <<device, lifeIdle>>

SessionStreamStep ==
    \E s \in Sessions :
        \/ SessionReceiveStop(s)
        \/ SessionStoreStop(s)

LifeDevices == {"f32", "none", "noconfig"}

\* the API calls and the stream threads; the production workers and the
\* callbacks touch neither the slot nor the stop channels
LifeNext ==
    \/ \E c \in DOMAIN app.callers, json_ok \in BOOLEAN : StartEnter(c, json_ok)
    \/ \E c \in DOMAIN app.callers, kind \in LifeDevices : StartFinish(c, kind)
    \/ \E c \in DOMAIN app.callers : StopCall(c)
    \/ \E c \in DOMAIN app.callers, json_ok \in BOOLEAN : UpdateCall(c, json_ok)
    \/ SessionStreamStep

LifeSpec == LifeInit /\ [][LifeNext]_vars

SerialSpec == SerialInit /\ [][LifeNext]_vars

(***************************************************************************)
(* A session's production worker and hardware callback by ring occupancy   *)
(* alone (audio_io.rs spawn_audio_worker, mix_from_ringbuffer): which      *)
(* samples the ring holds is left to the delivery pipeline above.          *)
(***************************************************************************)
\* while !stop_flag.load(Relaxed)
SessionWorkerLoop(s) ==
    /\ app.sessions[s].worker = "top"
    /\ app' = [app EXCEPT !.sessions[s].worker =
                 IF app.sessions[s].stop_flag THEN "exited" ELSE "drain"]
    /\ UNCHANGED <<device, lifeIdle>>

\* while let Some(cmd) = cmd_rx.try_pop() { scheduler.handle_command(cmd); }
SessionWorkerDrain(s) ==
    /\ app.sessions[s].worker = "drain"
    /\ app' = IF try_pop_none(app.sessions[s].cmd_rb)
              THEN [app EXCEPT !.sessions[s].worker = "check"]
              ELSE [app EXCEPT
                      !.sessions[s].cmd_rb = Tail(@),
                      !.sessions[s].applied =
                          Append(@, Head(app.sessions[s].cmd_rb))]
    /\ UNCHANGED <<device, lifeIdle>>

\* if producer.occupied_len() < min_samples { refill } else { sleep }
SessionWorkerCheck(s) ==
    /\ app.sessions[s].worker = "check"
    /\ app' = [app EXCEPT !.sessions[s].worker =
                 IF BelowLowWatermark(app.sessions[s].occupied)
                 THEN "inner" ELSE "top"]
    /\ UNCHANGED <<device, lifeIdle>>

\* one pass of the refill loop: the loop test, the size of the chunk, its
\* synthesis and the push; no command is popped inside the loop
SessionWorkerRefill(s) ==
    /\ app.sessions[s].worker = "inner"
    /\ LET occupied == app.sessions[s].occupied
           target == max_samples(device.sample_rate)
           n == samples_to_write(target - occupied, target, occupied)
       IN  app' = IF occupied >= target \/ app.sessions[s].stop_flag \/ n = 0
                  THEN [app EXCEPT !.sessions[s].worker = "top"]
                  ELSE [app EXCEPT !.sessions[s].occupied = @ + n]
    /\ UNCHANGED <<device, lifeIdle>>

SessionWorkerStep ==
    \E s \in Sessions :
        \/ SessionWorkerLoop(s)
        \/ SessionWorkerDrain(s)
        \/ SessionWorkerCheck(s)
        \/ SessionWorkerRefill(s)

\* a hardware callback of len samples on the playing stream: pop_slice takes
\* what the ring holds, up to len
SessionCallback(s, len) ==
    /\ app.sessions[s].stream \in {"wait", "store"}
    /\ app.sessions[s].occupied > 0
    /\ app' = [app EXCEPT !.sessions[s].occupied =
                 @ - Min(app.sessions[s].occupied, len)]
    /\ UNCHANGED <<device, lifeIdle>>

\* one thread's calls, the session threads, and callbacks without end
QueueInit == LifeInitWith(1, MaxQueueCalls)

QueueNext ==
    \/ LifeNext
    \/ SessionWorkerStep
    \/ \E s \in Sessions, len \in CallbackLens : SessionCallback(s, len)

QueueSpec == QueueInit /\ [][QueueNext]_vars

\* the stream threads and the production workers keep taking steps
QueueFairness ==
    /\ WF_vars(SessionStreamStep)
    /\ WF_vars(SessionWorkerStep)

QueueFairSpec == QueueInit /\ [][QueueNext]_vars /\ QueueFairness

(***************************************************************************)
(* Properties.                                                             *)
(***************************************************************************)
\* every sample the scheduler has produced so far, in production order
Produced == [i \in 1..(scheduler.absolute_sample * channels) |-> i]

\* the occupied part of the ring, oldest first
InRing == PopElems(rb, rb.cap)

\* the chunk that process_block has written and push_slice has not yet taken
InBlock ==
    IF worker.pc = "push"
    THEN SubSeq(block, 1, worker.samples_to_write)
    ELSE <<>>

\* the last sample a callback popped from the ring; 0.0 before the first
LastDelivered ==
    IF hist.popped = <<>> THEN 0 ELSE hist.popped[Len(hist.popped)]

\* C1: what the callbacks have popped, then what the ring holds, then the
\* chunk about to be pushed, is exactly the sequence of samples process_block
\* produced, in production order: nothing is lost, duplicated or reordered,
\* and every chunk is pushed in full.
C1_ProductionOrder ==
    rb.cap > 0 => (hist.popped \o InRing) \o InBlock = Produced

\* C1 witness: samples were popped, others wait in the ring, and a further
\* chunk is about to be pushed.
C1_Witness ==
    /\ hist.popped # <<>>
    /\ rb.cap > 0
    /\ occupied_len(rb) > 0
    /\ worker.pc = "push"

\* C2: a finished callback has written every slot of its buffer; the slots
\* past the copied ones all hold the last sample popped from the ring (0 if
\* none ever was), which is also what last_sample holds; and a callback that
\* has entered can always finish, whatever the ring holds.
C2_UnderflowRepeatsLast ==
    /\ hist.callback.done =>
          /\ DOMAIN data = 1..cb.len
          /\ \A i \in 1..cb.len : data[i] # Junk
          /\ \A i \in (hist.callback.copied + 1)..cb.len :
                data[i] = <<LastDelivered, 1>>
          /\ last_sample = LastDelivered
    /\ cb.pc = "pop" => ENABLED CallbackPop

\* C2 witness: a callback that got some samples, fewer than it asked for.
C2_Witness ==
    /\ hist.callback.done
    /\ hist.callback.copied > 0
    /\ hist.callback.copied < cb.len

\* C3: a callback that obtains samples after an underflow delivers a
\* cross-fade from the held sample, not the popped samples as they are.
C3_FadeAfterUnderflow ==
    (/\ hist.callback.done
     /\ hist.callback.after_underflow
     /\ hist.callback.copied > 0) => hist.callback.crossfaded

\* 0.5 s of audio, in samples
LowWatermark == ((device.sample_rate + 1) \div 2) * channels

\* 2.0 s of audio, in samples
HighWatermark == 2 * device.sample_rate * channels

TotalPushed == scheduler.absolute_sample * channels - Len(InBlock)

TotalPopped == Len(hist.popped)

\* C9: occupied + vacant is the capacity; the producer is never behind the
\* consumer nor more than the capacity ahead of it; and what a thread
\* observed is still a bound: the producer's vacancy can only have grown,
\* the consumer's occupancy too.
C9_RingAccounting ==
    rb.cap > 0 =>
       /\ occupied_len(rb) + vacant_len(rb) = rb.cap
       /\ TotalPushed - TotalPopped \in 0..rb.cap
       /\ occupied_len(rb) = TotalPushed - TotalPopped
       /\ worker.pc = "size" => worker.vacant <= vacant_len(rb)
       /\ cb.pc = "pop" => cb.available <= occupied_len(rb)

\* C9 witness: the ring is full while the consumer has already popped, so
\* the write index has wrapped past the read index.
C9_Witness ==
    /\ rb.cap > 0
    /\ occupied_len(rb) = rb.cap
    /\ hist.popped # <<>>
    /\ rb.write < rb.read

\* the worker is past the drain of its current outer-loop iteration
InProductionCycle ==
    worker.pc \in {"check", "inner", "vacant", "size", "process", "push",
                   "sleep"}

\* C5: the commands handed to handle_command, followed by those still in the
\* command ring, are exactly the commands the control calls enqueued, in the
\* order of the calls (each command carries the number of its call).
C5_CommandOrder ==
    /\ scheduler.applied \o cmd_rb = hist.accepted
    /\ \A i, j \in 1..Len(scheduler.applied) :
          i < j => scheduler.applied[i][2] < scheduler.applied[j][2]

\* C5 witness: two commands were applied and a later one is still queued.
C5_Witness ==
    /\ Len(scheduler.applied) >= 2
    /\ cmd_rb # <<>>

C7_StreamClosedAfterWorkerExit ==
    stream.pc = "returned" => worker.pc = "exited"

\* stop_audio_session was called on a registered session whose stream plays
\* or is about to
StoppedSession ==
    /\ start_result = "Ok"
    /\ ENGINE = "None"
    /\ device.kind = "f32"

\* stop flag set, worker gone, telemetry thread (if any) gone
AllTerminated ==
    /\ stop_flag
    /\ worker.pc = "exited"
    /\ telemetry => tel_pc = "exited"

\* C8: after stop_audio_session on an active session, the stop flag is
\* eventually set and the worker and the telemetry thread eventually
\* terminate.
C8_StopTerminatesAll == StoppedSession ~> AllTerminated

\* C10: with no output device, or a device whose sample format is not F32,
\* a start_audio_session that has returned reported an error, registered no
\* session and left no production worker behind.
C10_StartFailsCleanly ==
    (device.kind \in {"none", "i16"} /\ start_result # "none") =>
       /\ start_result = "Err"
       /\ ENGINE = "None"
       /\ worker.pc \in {"none", "exited"}


\* the samples the latest callback popped, oldest first
LastPopped ==
    SubSeq(hist.popped, Len(hist.popped) - hist.callback.copied + 1,
           Len(hist.popped))

\* C37: a finished callback that read an occupancy at or above the low
\* watermark (0.5 s) delivered the samples it popped as they are; the
\* delivered samples differ from the popped ones, by the blend with the held
\* sample, exactly when the callback popped something and had read an
\* occupancy below the low watermark, with or without an underflow before.
C37_BlendBelowLowWatermark ==
    hist.callback.done =>
       /\ cb.available >= LowWatermark =>
             \A i \in 1..hist.callback.copied : data[i] = <<LastPopped[i], 1>>
       /\ hist.callback.crossfaded <=>
             (hist.callback.copied > 0 /\ cb.available < LowWatermark)

\* C37 witness: a callback that read an occupancy below the low watermark
\* blended all the samples it asked for, and no underflow came before it.
C37_Witness ==
    /\ hist.callback.done
    /\ hist.callback.crossfaded
    /\ ~hist.callback.after_underflow
    /\ hist.callback.copied = cb.len
    /\ cb.available < LowWatermark

\* a callback that followed an underflow delivered its samples unmodified
UnmodifiedAfterUnderflow ==
    /\ hist.callback.done
    /\ hist.callback.after_underflow
    /\ hist.callback.copied > 0
    /\ ~hist.callback.crossfaded
    /\ cb.available >= LowWatermark

\* sample k of the production order belongs in slot i of a stereo buffer:
\* odd numbers are left-channel samples, even ones right-channel samples
SameChannel(k, i) == k % channels = i % channels

\* C38: every push of the production worker and, the callback buffers
\* having even lengths, every pop is a whole number of stereo frames; the
\* ring occupancy is always even; every popped sample is delivered in a slot
\* of its own channel, and a slot of the right channel that is filled with
\* the held sample holds a right-channel sample or the initial silence,
\* never a left-channel sample, after underflows too.
C38_FrameAlignment ==
    /\ rb.cap > 0 => occupied_len(rb) % channels = 0
    /\ worker.pc = "push" => worker.samples_to_write % channels = 0
    /\ Len(hist.popped) % channels = 0
    /\ hist.callback.done =>
          /\ cb.len % channels = 0
          /\ hist.callback.copied % channels = 0
          /\ \A i \in 1..hist.callback.copied : SameChannel(LastPopped[i], i)
          /\ \A i \in (hist.callback.copied + 1)..cb.len :
                SameChannel(i, 0) => SameChannel(last_sample, 0)

\* C38 witness: after an underflow that delivered part of a buffer, a
\* callback popped samples again while the worker was pushing.
C38_Witness ==
    /\ hist.callback.done
    /\ hist.callback.after_underflow
    /\ hist.callback.copied > 0
    /\ Len(hist.popped) > hist.callback.copied
    /\ worker.pc = "push"

\* no API call is in progress
Quiescent == \A c \in DOMAIN app.callers : app.callers[c].pc = "idle"

\* C34: once every start_audio_session and stop_audio_session call made
\* from any thread has returned, every session other than the one in the
\* global engine slot has been sent a stop signal.
C34_OthersSentStop ==
    Quiescent => \A s \in Sessions : s # app.ENGINE => app.sessions[s].sent

\* a session outside the slot waits on a stop channel that holds no message
\* and has no sender left, its worker running
Orphaned(s) ==
    /\ s # app.ENGINE
    /\ app.sessions[s].stream = "wait"
    /\ app.sessions[s].worker # "exited"
    /\ app.sessions[s].stop_chan = 0
    /\ ~app.sessions[s].stop_sender

\* the step is the return of a call with this result
Returns(call, result) ==
    /\ Len(app'.returns) = Len(app.returns) + 1
    /\ app'.returns[Len(app'.returns)].call = call
    /\ app'.returns[Len(app'.returns)].result = result

\* the step takes a caller into start_audio_session, up to its validation
EntersStart ==
    \E c \in DOMAIN app.callers :
        app.callers[c].pc = "idle" /\ app'.callers[c].pc = "validate"

\* the session the slot held was sent a stop signal
WasStopped(slot) == slot # 0 => app'.sessions[slot].sent

\* C35: for calls made one after the other, start_audio_session has emptied
\* the slot and signalled the session that was in it before it validates
\* its input; when it returns an error no session is registered and none
\* was created; update_session returning an error leaves the slot, the
\* sessions and their command queues as they were.
C35_FailedCallEffects ==
    [][/\ EntersStart => (app'.ENGINE = 0 /\ WasStopped(app.ENGINE))
       /\ Returns("start_audio_session", "Err") =>
             /\ app'.ENGINE = 0
             /\ app'.sessions = app.sessions
             /\ WasStopped(app'.returns[Len(app'.returns)].taken)
       /\ Returns("update_session", "Err") =>
             /\ app'.ENGINE = app.ENGINE
             /\ app'.sessions = app.sessions]_vars

\* C35 witness: a start_audio_session that found a session registered has
\* returned an error, and an update_session made while a command was queued
\* has returned an error.
C35_Witness ==
    /\ \E i \in DOMAIN app.returns :
          /\ app.returns[i].call = "start_audio_session"
          /\ app.returns[i].result = "Err"
          /\ app.returns[i].taken # 0
    /\ \E j \in DOMAIN app.returns :
          /\ app.returns[j].call = "update_session"
          /\ app.returns[j].result = "Err"
          /\ app.returns[j].queued > 0


\* the command numbered k is in the queue or list q
Numbered(q, k) == \E i \in DOMAIN q : q[i][2] = k

\* how often the command numbered k occurs in q
Occurrences(q, k) == Cardinality({i \in DOMAIN q : q[i][2] = k})

\* the call found no session registered, or the command queue full
Refused(r) == r.slot = 0 \/ r.queued >= COMMAND_RING_CAPACITY

\* C36, the part about refused calls: an update_session that returned Ok
\* having found no session or a full queue left its command in no queue and
\* no worker has applied it; every other command is once in the queue or
\* the applied list of the session it was sent to.
C36_RefusedNeverApplied ==
    \A i \in DOMAIN app.returns :
        LET r == app.returns[i]
        IN  (r.call = "update_session" /\ r.result = "Ok") =>
               \A s \in Sessions :
                   Occurrences(app.sessions[s].cmd_rb \o app.sessions[s].applied,
                               r.cmd)
                     = IF ~Refused(r) /\ s = r.slot THEN 1 ELSE 0

\* the command numbered k waits in the queue of session s
Waits(s, k) == s \in Sessions /\ Numbered(app.sessions[s].cmd_rb, k)

\* the worker of session s has applied the command numbered k, or has exited
Settled(s, k) ==
    /\ s \in Sessions
    /\ \/ Numbered(app.sessions[s].applied, k)
       \/ app.sessions[s].worker = "exited"

\* C36: a command that is in a session's queue is eventually applied by the
\* session's production worker, unless the worker exits.
C36_EnqueuedEventuallyApplied ==
    \A s \in 1..MaxQueueCalls, k \in 1..MaxQueueCalls :
        Waits(s, k) ~> Settled(s, k)


(***************************************************************************)
(* FftNoiseGenerator::new from the choice of the buffer size on: the       *)
(* worker is spawned and two buffers are requested and awaited in turn.    *)
(***************************************************************************)
FftNoiseGenerator_new(requested) ==
    /\ gen.pc = "unbuilt"
    /\ gen' = [NoGen EXCEPT !.pc = "wait1", !.size = BufferSize(requested)]
    /\ nw' = [NoNoiseWorker EXCEPT !.pc = "recv"]
    /\ req_chan' = <<[id |-> 1, buffer |-> ZeroBuffer(BufferSize(requested))]>>
    /\ res_chan' = <<>>
    /\ nhist' = [nhist EXCEPT !.sent = 1]
    /\ UNCHANGED <<nbudget, sn, fft_params>>
    /\ UNCHANGED <<deliveryVars, signalVars>>

\* res_rx.recv() returns the initial buffer; the second request is sent
NewInitialBuffer ==
    /\ gen.pc = "wait1"
    /\ res_chan # <<>>
    /\ gen' = [gen EXCEPT !.pc = "wait2", !.buffer = Head(res_chan).buffer]
    /\ res_chan' = Tail(res_chan)
    /\ req_chan' = Append(req_chan, [id |-> 2, buffer |-> ZeroBuffer(gen.size)])
    /\ nhist' = [nhist EXCEPT !.sent = 2, !.received = 1]
    /\ UNCHANGED <<nw, nbudget, sn, fft_params>>
    /\ UNCHANGED <<deliveryVars, signalVars>>

\* res_rx.recv() returns the second buffer; the generator is built
NewSecondBuffer ==
    /\ gen.pc = "wait2"
    /\ res_chan # <<>>
    /\ gen' = [gen EXCEPT !.pc = "idle",
                          !.next_buffer_storage = Head(res_chan).buffer,
                          !.next_buffer_ready = TRUE]
    /\ res_chan' = Tail(res_chan)
    /\ nhist' = [nhist EXCEPT !.received = 2]
    /\ UNCHANGED <<req_chan, nw, nbudget, sn, fft_params>>
    /\ UNCHANGED <<deliveryVars, signalVars>>

(***************************************************************************)
(* AsyncNoiseWorker::run.                                                  *)
(***************************************************************************)
\* the generator's ends of both channels are closed
SourceGone == gen.pc \in {"panicked", "dropped"}

RequestsClosed_never == FALSE

\* rx.recv() returns Err: no message is queued and the sender is gone
RequestsClosed == req_chan = <<>> /\ SourceGone

\* while let Ok(mut req) = self.rx.recv()
NoiseWorkerRecv ==
    /\ nw.pc = "recv"
    /\ IF req_chan # <<>>
       THEN /\ nw' = [pc |-> "regen", buffer |-> Head(req_chan).buffer,
                      id |-> Head(req_chan).id, panicked |-> FALSE,
                      silent |-> FALSE, target_rms |-> nw.target_rms,
                      scaled_to |-> None]
            /\ req_chan' = Tail(req_chan)
       ELSE /\ RequestsClosed
            /\ nw' = [NoNoiseWorker EXCEPT !.pc = "exited"]
            /\ UNCHANGED req_chan
    /\ UNCHANGED <<gen, res_chan, nhist, nbudget, sn, fft_params>>
    /\ UNCHANGED <<deliveryVars, signalVars>>

PanicBuffer_garbage(b) == [b EXCEPT !.zero = FALSE]

\* req.buffer.fill(0.0)
PanicBuffer(b) == [b EXCEPT !.id = 0, !.zero = TRUE]

\* how a regeneration ends: it panics, or it returns a buffer whose RMS is
\* above 1e-9 ("shaped") or is not ("silent")
RegenOutcomes == {"shaped", "silent", "panic"}

LocksTarget_always(target_rms) == TRUE

\* the else of `if let Some(target_rms) = self.target_rms`
LocksTarget(target_rms) == target_rms = None

\* self.target_rms after regenerate_into's RMS locking; a panic unwinds
\* before the locking is reached
target_rms_after(w, outcome) ==
    IF outcome = "shaped" /\ LocksTarget(w.target_rms)
    THEN Some(w.id)
    ELSE w.target_rms

\* the RMS the buffer is scaled to by gain = target_rms / current_rms
scaled_to_target(w, outcome) ==
    IF outcome = "shaped" /\ ~LocksTarget(w.target_rms)
    THEN w.target_rms
    ELSE None

\* regenerate_into under catch_unwind
NoiseWorkerRegenerate(outcome) ==
    /\ nw.pc = "regen"
    /\ outcome = "panic" => nbudget.panics > 0
    /\ outcome = "silent" => nbudget.silent > 0
    /\ nw' = [nw EXCEPT
                !.pc = "send",
                !.panicked = (outcome = "panic"),
                !.silent = (outcome = "silent"),
                !.target_rms = target_rms_after(nw, outcome),
                !.scaled_to = scaled_to_target(nw, outcome),
                !.buffer = IF outcome = "panic"
                           THEN PanicBuffer(nw.buffer)
                           ELSE [id |-> nw.id, zero |-> FALSE,
                                 len |-> gen.size]]
    /\ nbudget' = [nbudget EXCEPT
                     !.panics = IF outcome = "panic" THEN @ - 1 ELSE @,
                     !.silent = IF outcome = "silent" THEN @ - 1 ELSE @]
    /\ UNCHANGED <<gen, req_chan, res_chan, nhist, sn, fft_params>>
    /\ UNCHANGED <<deliveryVars, signalVars>>

\* let _ = self.tx.send(..): blocks while the channel is full, returns Err
\* at once when the receiver is gone
NoiseWorkerSend ==
    /\ nw.pc = "send"
    /\ IF SourceGone
       THEN /\ nhist' = [nhist EXCEPT !.abandoned = @ + 1]
            /\ UNCHANGED res_chan
       ELSE /\ Len(res_chan) < NOISE_CHANNEL_CAPACITY
            /\ res_chan' = Append(res_chan, [id |-> nw.id, buffer |-> nw.buffer,
                                             target_rms |-> nw.target_rms])
            /\ nhist' = [nhist EXCEPT !.responses =
                           Append(@, [id |-> nw.id, zero |-> nw.buffer.zero,
                                      panicked |-> nw.panicked,
                                      silent |-> nw.silent,
                                      target_rms |-> nw.target_rms,
                                      scaled_to |-> nw.scaled_to])]
    /\ nw' = [NoNoiseWorker EXCEPT !.pc = "recv",
                                   !.target_rms = nw.target_rms]
    /\ UNCHANGED <<gen, req_chan, nbudget, sn, fft_params>>
    /\ UNCHANGED <<deliveryVars, signalVars>>

NoiseWorkerStep ==
    \/ NoiseWorkerRecv
    \/ \E outcome \in RegenOutcomes : NoiseWorkerRegenerate(outcome)
    \/ NoiseWorkerSend

(***************************************************************************)
(* FftNoiseGenerator::next, in two steps: the early trigger with its       *)
(* try_send, then the poll with its try_recv and the rest of the call.     *)
(***************************************************************************)
crossfade_len(g) == Min(g.buffer.len, CROSSFADE_SAMPLES)

early_trigger_late(size) == size - 1

\* let early_trigger = self.size / 2
early_trigger(size) == size \div 2

TriggerGuard_ignores_request(g) == ~g.next_buffer_ready

\* if !self.next_buffer_ready && !self.worker_requested
TriggerGuard(g) == ~g.next_buffer_ready /\ ~g.worker_requested

\* the request is due in this call
TriggerFires(g) == TriggerGuard(g) /\ g.cursor >= early_trigger(g.size)

\* worker_tx.try_send(..) is Ok
try_send_ok == nw.pc # "exited" /\ Len(req_chan) < NOISE_CHANNEL_CAPACITY

buffer_to_recycle_fresh(g) == EmptyBuffer

\* std::mem::take(&mut self.next_buffer_storage), resized to self.size
buffer_to_recycle(g) == [g.next_buffer_storage EXCEPT !.len = g.size]

NextTrigger ==
    /\ gen.pc = "idle"
    /\ nbudget.calls > 0
    /\ nbudget' = [nbudget EXCEPT !.calls = @ - 1]
    /\ IF TriggerFires(gen)
       THEN /\ gen' = [gen EXCEPT !.pc = "poll",
                                  !.next_buffer_storage = EmptyBuffer,
                                  !.worker_requested = try_send_ok]
            /\ req_chan' = IF try_send_ok
                           THEN Append(req_chan,
                                       [id |-> nhist.sent + 1,
                                        buffer |-> buffer_to_recycle(gen)])
                           ELSE req_chan
       ELSE /\ gen' = [gen EXCEPT !.pc = "poll"]
            /\ UNCHANGED req_chan
    /\ nhist' = [nhist EXCEPT
                   !.entry = [cursor |-> gen.cursor,
                              ready |-> gen.next_buffer_ready,
                              requested |-> gen.worker_requested],
                   !.sent_now = TriggerFires(gen) /\ try_send_ok,
                   !.recycled = IF TriggerFires(gen) /\ try_send_ok
                                THEN buffer_to_recycle(gen) ELSE @,
                   !.send_failed = @ \/ (TriggerFires(gen) /\ ~try_send_ok),
                   !.sent = IF TriggerFires(gen) /\ try_send_ok
                            THEN @ + 1 ELSE @]
    /\ UNCHANGED <<res_chan, nw, sn, fft_params>>
    /\ UNCHANGED <<deliveryVars, signalVars>>

\* match self.worker_rx.try_recv()
ResponseTaken(g) == g.worker_requested /\ res_chan # <<>>

Poll(g) ==
    IF ~g.worker_requested THEN g
    ELSE IF res_chan # <<>>
    THEN [g EXCEPT !.next_buffer_storage = Head(res_chan).buffer,
                   !.next_buffer_ready = TRUE,
                   !.worker_requested = FALSE]
    ELSE IF nw.pc = "exited"
    THEN [g EXCEPT !.worker_requested = FALSE]
    ELSE g

\* if self.cursor >= self.buffer.len()
AtEnd(g) == g.cursor >= g.buffer.len

Swaps(g) == AtEnd(g) /\ g.next_buffer_ready

Underruns(g) == AtEnd(g) /\ ~g.next_buffer_ready

\* the buffer switching logic; cf is crossfade_len at the entry of the call
Switch(g, cf) ==
    IF Swaps(g)
    THEN [g EXCEPT !.buffer = g.next_buffer_storage,
                   !.next_buffer_storage = g.buffer,
                   !.cursor = Min(cf, g.next_buffer_storage.len),
                   !.next_buffer_ready = FALSE,
                   !.underrun_recovering = FALSE,
                   !.underrun_fade_pos = 0]
    ELSE IF Underruns(g)
    THEN [g EXCEPT !.cursor = 0,
                   !.underrun_recovering = TRUE,
                   !.underrun_fade_pos = 0]
    ELSE g

crossfade_start(g, cf) == saturating_sub(g.buffer.len, cf)

\* the sample is a blend of the active and the next buffer
Crossfading(g, cf) ==
    /\ g.next_buffer_ready
    /\ g.cursor >= crossfade_start(g, cf)
    /\ cf > 0
    /\ g.next_buffer_storage.len > 0

\* self.buffer[self.cursor] is out of bounds
IndexPanics(g) == g.cursor >= g.buffer.len

\* the sample before the underrun fade: the buffer and index read, and the
\* next buffer's id and index it is blended with, if any
HeadSample(g, cf) ==
    [buffer |-> g.buffer.id,
     index |-> g.cursor,
     next |-> IF Crossfading(g, cf)
              THEN <<g.next_buffer_storage.id, g.cursor - crossfade_start(g, cf)>>
              ELSE <<>>]

Fading(g) ==
    g.underrun_recovering /\ g.underrun_fade_pos < UNDERRUN_FADE_SAMPLES

tail_idx_head(g) == g.cursor

\* (tail_base + pos).min(self.buffer.len().saturating_sub(1))
tail_idx(g) ==
    Min(saturating_sub(g.buffer.len, UNDERRUN_FADE_SAMPLES) + g.underrun_fade_pos,
        saturating_sub(g.buffer.len, 1))

\* the tail sample blended in by the underrun fade and its position, if any
TailSample(g) ==
    IF Fading(g) THEN <<tail_idx(g), g.underrun_fade_pos>> ELSE <<>>

\* the underrun recovery state after the sample
AfterFade(g) ==
    IF ~g.underrun_recovering THEN g
    ELSE IF Fading(g)
    THEN [g EXCEPT !.underrun_fade_pos = @ + 1]
    ELSE [g EXCEPT !.underrun_recovering = FALSE, !.underrun_fade_pos = 0]

NextFinish ==
    /\ gen.pc = "poll"
    /\ LET cf == crossfade_len(gen)
           polled == Poll(gen)
           switched == Switch(polled, cf)
       IN /\ res_chan' = IF ResponseTaken(gen) THEN Tail(res_chan) ELSE res_chan
          /\ IF IndexPanics(switched)
             THEN /\ gen' = [switched EXCEPT !.pc = "panicked"]
                  /\ nhist' = [nhist EXCEPT
                                 !.received = IF ResponseTaken(gen)
                                              THEN @ + 1 ELSE @]
             ELSE /\ gen' = [AfterFade(switched) EXCEPT
                               !.pc = "idle", !.cursor = switched.cursor + 1]
                  /\ nhist' = [nhist EXCEPT
                       !.received = IF ResponseTaken(gen) THEN @ + 1 ELSE @,
                       !.out = [head |-> HeadSample(switched, cf),
                                tail |-> TailSample(switched)],
                       !.blended =
                           IF Swaps(polled) THEN <<>>
                           ELSE IF Crossfading(switched, cf)
                           THEN Append(@, <<switched.cursor
                                              - crossfade_start(switched, cf),
                                            switched.cursor>>)
                           ELSE @,
                       !.swap = IF Swaps(polled)
                                THEN [blended |-> nhist.blended,
                                      resumed |-> switched.cursor,
                                      crossfade_len |-> cf,
                                      len |-> polled.buffer.len,
                                      outgoing |-> polled.buffer]
                                ELSE @,
                       !.und = IF Underruns(polled) THEN 1
                               ELSE IF Swaps(polled) \/ @ = 0 THEN 0
                               ELSE Min(@ + 1, UNDERRUN_FADE_SAMPLES + 2)]
    /\ UNCHANGED <<req_chan, nw, nbudget, sn, fft_params>>
    /\ UNCHANGED <<deliveryVars, signalVars>>

\* the generator is dropped between two calls: both its channel ends close
DropNoiseSource ==
    /\ gen.pc = "idle"
    /\ gen' = [gen EXCEPT !.pc = "dropped"]
    /\ UNCHANGED <<req_chan, res_chan, nw, nhist, nbudget, sn, fft_params>>
    /\ UNCHANGED <<deliveryVars, signalVars>>

(***************************************************************************)
(* The noise source on its own: construction, next() calls, the worker,    *)
(* and the drop of the source.                                             *)
(***************************************************************************)
NoiseInitWith(calls, panics, silent) ==
    /\ DeliveryInit(0, 0, {1}, {"f32"}, {FALSE})
    /\ gen = NoGen
    /\ req_chan = <<>>
    /\ res_chan = <<>>
    /\ nw = NoNoiseWorker
    /\ nhist = NoNoiseHistory
    /\ nbudget = [calls |-> calls, panics |-> panics, silent |-> silent]
    /\ sn = NoEngine
    /\ fft_params = NoParams
    /\ renorm = NoRenorm
    /\ ola = NoOla

\* every regeneration returns a buffer with an RMS or panics
NoiseInit == NoiseInitWith(MaxNoiseCalls, MaxRegenPanics, 0)

NoiseNext ==
    \/ \E requested \in Requested : FftNoiseGenerator_new(requested)
    \/ NewInitialBuffer
    \/ NewSecondBuffer
    \/ NoiseWorkerStep
    \/ NextTrigger
    \/ NextFinish
    \/ DropNoiseSource

NoiseSpec == NoiseInit /\ [][NoiseNext]_vars

\* the worker thread is scheduled whenever it can run
NoiseFairSpec == NoiseInit /\ [][NoiseNext]_vars /\ WF_vars(NoiseWorkerStep)

\* the noise source with regenerations that may also return silence
LockInit == NoiseInitWith(MaxLockCalls, MaxRegenPanics, MaxSilentBuffers)

LockSpec == LockInit /\ [][NoiseNext]_vars



(***************************************************************************)
(* Properties of the noise source.                                         *)
(***************************************************************************)
\* C11: every call to next() reads the active buffer below its length and
\* never panics, for every buffer size the constructor can choose.
C11_NextNeverPanics == gen.pc # "panicked"

\* what a swap finds when the whole crossfade was played: offset i of the
\* incoming buffer blended with offset len - crossfade_len + i of the
\* outgoing one, for every i below crossfade_len, in order
FullCrossfade(len, cf) == [i \in 1..cf |-> <<i - 1, len - cf + i - 1>>]

\* C12: whenever next() swaps in a replacement buffer, the last
\* crossfade-length samples of the outgoing buffer were each blended with the
\* same-offset sample of the incoming buffer and playback resumes at offset
\* crossfade-length, whenever the worker's response arrived.
C12_SwapAfterFullCrossfade ==
    nhist.swap # <<>> =>
        /\ nhist.swap.blended
             = FullCrossfade(nhist.swap.len, nhist.swap.crossfade_len)
        /\ nhist.swap.resumed = nhist.swap.crossfade_len

\* the latest call of next() was call k (from 0) of an underrun recovery
RecoveryCall(k) == gen.pc \in {"idle", "poll", "dropped"} /\ nhist.und = k + 1

\* what the claim and its amendment share: the restart at 0, the tail sample
\* and fade position of each of the UNDERRUN_FADE_SAMPLES calls, head index k,
\* and the end of recovery mode after them or at a swap
UnderrunFadeShape ==
    /\ RecoveryCall(0) => gen.cursor = 1
    /\ \A k \in 0..(UNDERRUN_FADE_SAMPLES - 1) :
         RecoveryCall(k) =>
            /\ nhist.out.tail = <<gen.buffer.len - UNDERRUN_FADE_SAMPLES + k, k>>
            /\ nhist.out.head.buffer = gen.buffer.id
            /\ nhist.out.head.index = k
    /\ RecoveryCall(UNDERRUN_FADE_SAMPLES) =>
            /\ nhist.out.tail = <<>>
            /\ ~gen.underrun_recovering
    /\ RecoveryCall(UNDERRUN_FADE_SAMPLES + 1) => ~gen.underrun_recovering
    /\ (gen.pc \in {"idle", "poll", "dropped"} /\ nhist.und = 0) =>
            ~gen.underrun_recovering

C14_RequestAtHalf ==
    gen.pc = "poll" =>
        /\ nhist.sent_now <=>
              /\ ~nhist.entry.ready
              /\ ~nhist.entry.requested
              /\ 2 * nhist.entry.cursor >= gen.size
        /\ nhist.sent_now =>
              /\ nhist.swap # <<>>
              /\ nhist.recycled = nhist.swap.outgoing

\* a request was sent in the call that found the cursor exactly at half
C14_Witness ==
    /\ gen.pc = "poll"
    /\ nhist.sent_now
    /\ 2 * nhist.entry.cursor = gen.size
    /\ nhist.sent = 3

\* C15: the worker answers the requests one by one in request order, a
\* panicking regeneration answers with an all-zero buffer, and once the
\* worker waits on an empty request channel every request has its response.
C15_OneResponsePerRequest ==
    /\ \A i \in 1..Len(nhist.responses) :
          /\ nhist.responses[i].id = i
          /\ nhist.responses[i].panicked => nhist.responses[i].zero
    /\ Len(nhist.responses) <= nhist.sent
    /\ \A j \in 1..Len(res_chan) :
          /\ res_chan[j].id = nhist.received + j
          /\ res_chan[j].buffer.zero = nhist.responses[nhist.received + j].zero
    /\ (~SourceGone /\ nw.pc = "recv" /\ req_chan = <<>>) =>
          Len(nhist.responses) = nhist.sent

\* a regeneration panicked and the worker served a later request
C15_Witness ==
    \E i \in 1..Len(nhist.responses) :
        /\ nhist.responses[i].panicked
        /\ i < Len(nhist.responses)
        /\ ~nhist.responses[Len(nhist.responses)].zero

\* C16: once the source is built at most one request is outstanding, so the
\* try_send of next() never fails, the worker never waits to send a
\* response, and next() never waits for the worker.
C16_OneOutstanding ==
    /\ gen.pc \in {"idle", "poll"} => nhist.sent - nhist.received \in {0, 1}
    /\ ~nhist.send_failed
    /\ Len(req_chan) + Len(res_chan) <= 1
    /\ (nw.pc = "send" /\ ~SourceGone) => ENABLED NoiseWorkerSend
    /\ gen.pc = "poll" => ENABLED NextFinish

\* a request of next() is outstanding and its response is about to be sent
C16_Witness ==
    /\ gen.pc = "idle"
    /\ nhist.sent = 3
    /\ nhist.received = 2
    /\ nw.pc = "send"

\* C17: once the source is gone the worker thread eventually terminates.
C17_WorkerTerminates == SourceGone ~> (nw.pc = "exited")

\* the worker ended after a response that nobody was left to receive
C17_Witness == nw.pc = "exited" /\ nhist.abandoned = 1

\* the regeneration answered by response i returned a buffer with an RMS
Shaped(i) == ~nhist.responses[i].panicked /\ ~nhist.responses[i].silent

\* the first shaped regeneration among the first i responses, None if none
FirstShaped(i) ==
    IF \E j \in 1..i : Shaped(j)
    THEN Some(CHOOSE j \in 1..i : Shaped(j) /\ \A k \in 1..(j - 1) : ~Shaped(k))
    ELSE None

\* C22: the worker's locked target RMS is written at most once: every
\* response reports the RMS of the first buffer that was generated without a
\* panic and was not silent (None before there is one), every later such
\* buffer is scaled to that RMS, and the value the worker holds is the one
\* of its last response or, while it regenerates, that or the new lock.
C22_TargetRmsLockedOnce ==
    /\ \A i \in 1..Len(nhist.responses) :
          /\ nhist.responses[i].target_rms = FirstShaped(i)
          /\ (Shaped(i) /\ FirstShaped(i) # Some(i)) =>
                nhist.responses[i].scaled_to = FirstShaped(i)
          /\ \A j \in 1..(i - 1) :
                nhist.responses[j].target_rms # None =>
                   nhist.responses[i].target_rms = nhist.responses[j].target_rms
    /\ (nw.pc = "recv" /\ nhist.abandoned = 0) =>
          nw.target_rms = FirstShaped(Len(nhist.responses))

\* the RMS was locked by one buffer, a later regeneration panicked, and the
\* buffer after that was scaled to the RMS locked before the panic
C22_Witness ==
    \E i \in 1..Len(nhist.responses) :
        /\ nhist.responses[i].panicked
        /\ nhist.responses[i].target_rms # None
        /\ i < Len(nhist.responses)
        /\ nhist.responses[Len(nhist.responses)].scaled_to
              = nhist.responses[i].target_rms
        /\ nhist.responses[Len(nhist.responses)].scaled_to # None

\* the noise buffers in existence: the active one, the next storage, those
\* travelling in a request or a response, and the one the worker works on
BuffersHeld ==
    [active  |-> IF gen.buffer.len > 0 THEN 1 ELSE 0,
     storage |-> IF gen.next_buffer_storage.len > 0 THEN 1 ELSE 0,
     request |-> Cardinality({i \in 1..Len(req_chan) : req_chan[i].buffer.len > 0}),
     worker  |-> IF nw.pc \in {"regen", "send"} /\ nw.buffer.len > 0 THEN 1 ELSE 0,
     response |-> Cardinality({i \in 1..Len(res_chan) : res_chan[i].buffer.len > 0})]

\* C29: once the source is built there are exactly two noise buffers: the
\* active one and one more, which is the next storage, or in a request, or
\* with the worker, or in a response.
C29_TwoBuffers ==
    gen.pc \in {"idle", "poll"} =>
       /\ BuffersHeld.active = 1
       /\ BuffersHeld.storage + BuffersHeld.request + BuffersHeld.worker
            + BuffersHeld.response = 1

\* during playback the played-out buffer is with the worker for regeneration
C29_Witness ==
    /\ gen.pc = "idle"
    /\ nhist.sent >= 3
    /\ BuffersHeld.worker = 1
    /\ BuffersHeld.storage = 0

\* the buffer the worker returns for request id: the generator is seeded, so
\* the id of the request names the content
SeededBuffer(id, size) == [id |-> id, zero |-> FALSE, len |-> size]

\* one call of next in a run whose worker answers every request before the
\* call after it: p holds the generator g, the requests sent and the sample
\* of the call before
PromptCall(p) ==
    LET g == p.g
        cf == crossfade_len(g)
        triggered == IF TriggerFires(g)
                     THEN [g EXCEPT !.next_buffer_storage = EmptyBuffer,
                                    !.worker_requested = TRUE]
                     ELSE g
        polled == IF g.worker_requested
                  THEN [triggered EXCEPT
                          !.next_buffer_storage = SeededBuffer(p.sent, g.size),
                          !.next_buffer_ready = TRUE,
                          !.worker_requested = FALSE]
                  ELSE triggered
        switched == Switch(polled, cf)
    IN [g |-> [AfterFade(switched) EXCEPT !.cursor = switched.cursor + 1],
        sent |-> IF TriggerFires(g) THEN p.sent + 1 ELSE p.sent,
        out |-> [head |-> HeadSample(switched, cf),
                 tail |-> TailSample(switched)]]

\* that run after n calls of next, from the generator FftNoiseGenerator::new
\* returns
PromptRun(size, n) ==
    LET run[k \in 0..n] ==
            IF k = 0
            THEN [g |-> [NoGen EXCEPT
                           !.pc = "idle",
                           !.size = size,
                           !.buffer = SeededBuffer(1, size),
                           !.next_buffer_storage = SeededBuffer(2, size),
                           !.next_buffer_ready = TRUE],
                  sent |-> 2,
                  out |-> NoSample]
            ELSE PromptCall(run[k - 1])
    IN run[n]

\* the calls of next made so far
NextCallsMade == MaxNoiseCalls - nbudget.calls

\* C33: the samples a generator puts out do not depend on how its worker
\* thread is scheduled: while no regeneration has panicked, the sample of
\* the n-th call of next is the one of the run in which the worker answers
\* every request before the following call, so that two instances built
\* from the same parameters put out the same sequence.
C33_OutputIndependentOfSchedule ==
    (gen.pc = "idle" /\ NextCallsMade > 0 /\ nbudget.panics = MaxRegenPanics) =>
        nhist.out = PromptRun(gen.size, NextCallsMade).out

\* a run whose worker answered in time: it has swapped to the third buffer
\* and its samples are those of the prompt run
C33_PromptRunReached ==
    /\ gen.pc = "idle"
    /\ nbudget.panics = MaxRegenPanics
    /\ gen.buffer.id = 3
    /\ nhist.out = PromptRun(gen.size, NextCallsMade).out



(***************************************************************************)
(* FftNoiseGenerator::new up to the choice of the buffer size: the noise   *)
(* name and the preset resolve the spectral parameters.  Numbers are exact *)
(* fractions <<numerator, denominator>>; an Option is <<>> for None and    *)
(* <<v>> for Some(v).                                                      *)
(***************************************************************************)
or_else(a, b) == IF a # None THEN a ELSE b

unwrap_or(a, d) == IF a # None THEN a[1] ELSE d

\* f32::max on fractions with positive denominators
RatMax(a, b) == IF a[1] * b[2] >= b[1] * a[2] THEN a ELSE b

\* params.noise_parameters.get("name"): absent, a JSON value that is not a
\* string, or a string
NameEntries ==
    {[kind |-> "missing", value |-> ""], [kind |-> "number", value |-> ""]}
    \cup [kind : {"string"},
          value : {"pink", "brown", "red", "green", "blue", "purple",
                   "deep brown", "white", "Pink", "WHITE", "violet", ""}]

resolved_noise_name(entry) ==
    IF entry.kind = "string" THEN entry.value ELSE "pink"

\* str::to_lowercase on the names above
to_lowercase(name) ==
    CASE name = "Pink" -> "pink"
      [] name = "WHITE" -> "white"
      [] OTHER -> name

PresetNames ==
    {"pink", "brown", "red", "green", "blue", "purple", "deep brown", "white"}

\* (exponent, high_exponent, distribution_curve, lowcut, highcut, amplitude)
preset_for_type(nt) ==
    CASE nt = "pink" ->
           Some(<<<<1, 1>>, <<1, 1>>, <<1, 1>>, None, None, <<1, 1>>>>)
      [] nt = "brown" ->
           Some(<<<<2, 1>>, <<2, 1>>, <<1, 1>>, None, None, <<1, 1>>>>)
      [] nt = "red" ->
           Some(<<<<2, 1>>, <<3, 2>>, <<1, 1>>, None, None, <<1, 1>>>>)
      [] nt = "green" ->
           Some(<<<<0, 1>>, <<0, 1>>, <<1, 1>>, Some(<<100, 1>>),
                  Some(<<8000, 1>>), <<1, 1>>>>)
      [] nt = "blue" ->
           Some(<<<<-1, 1>>, <<-1, 1>>, <<1, 1>>, None, None, <<1, 1>>>>)
      [] nt = "purple" ->
           Some(<<<<-2, 1>>, <<-2, 1>>, <<1, 1>>, None, None, <<1, 1>>>>)
      [] nt = "deep brown" ->
           Some(<<<<5, 2>>, <<2, 1>>, <<1, 1>>, None, None, <<1, 1>>>>)
      [] nt = "white" ->
           Some(<<<<0, 1>>, <<0, 1>>, <<1, 1>>, None, None, <<1, 1>>>>)
      [] OTHER -> None

\* preset.map(|p| p.i)
preset_field(preset, i) == IF preset = None THEN None ELSE Some(preset[1][i])

\* preset.and_then(|p| p.i)
preset_option(preset, i) == IF preset = None THEN None ELSE preset[1][i]

\* the NoiseParams a caller can pass: each field absent or overridden
NoiseParamsInputs ==
    [name : NameEntries,
     exponent : {None, Some(<<3, 1>>)},
     high_exponent : {None, Some(<<4, 1>>)},
     distribution_curve : {None, Some(<<0, 1>>), Some(<<2, 1>>)},
     lowcut : {None, Some(<<50, 1>>)},
     highcut : {None, Some(<<5000, 1>>)},
     amplitude : {None, Some(<<1, 2>>)}]

ResolvedExponent(params, preset) ==
    unwrap_or(or_else(params.exponent, preset_field(preset, 1)), <<0, 1>>)

ResolveNoiseParams(params) ==
    /\ ~fft_params.built
    /\ LET nt == to_lowercase(resolved_noise_name(params.name))
           preset == preset_for_type(nt)
           exponent == ResolvedExponent(params, preset)
       IN fft_params' =
            [built |-> TRUE,
             params |-> params,
             exponent |-> exponent,
             high_exponent |->
                 unwrap_or(or_else(params.high_exponent,
                                   preset_field(preset, 2)), exponent),
             distribution_curve |->
                 RatMax(unwrap_or(or_else(params.distribution_curve,
                                          preset_field(preset, 3)), <<1, 1>>),
                        <<1, 1000000>>),
             lowcut |-> or_else(params.lowcut, preset_option(preset, 4)),
             highcut |-> or_else(params.highcut, preset_option(preset, 5)),
             amplitude |->
                 unwrap_or(or_else(params.amplitude, preset_field(preset, 6)),
                           <<1, 1>>)]
    /\ UNCHANGED <<gen, req_chan, res_chan, nw, nhist, nbudget, sn>>
    /\ UNCHANGED <<deliveryVars, signalVars>>

PresetInit == InitWith(0, 0, {1}, {"f32"}, {FALSE})

PresetNext == \E params \in NoiseParamsInputs : ResolveNoiseParams(params)

PresetSpec == PresetInit /\ [][PresetNext]_vars

\* the caller overrides none of the spectral parameters
NoOverrides(params) ==
    /\ params.exponent = None
    /\ params.high_exponent = None
    /\ params.distribution_curve = None
    /\ params.lowcut = None
    /\ params.highcut = None
    /\ params.amplitude = None

\* the name is absent or is not the name of a preset
NotAPreset(entry) ==
    entry.kind # "string" \/ to_lowercase(entry.value) \notin PresetNames

PinkDefaults(p) ==
    /\ p.exponent = <<1, 1>>
    /\ p.high_exponent = <<1, 1>>
    /\ p.distribution_curve = <<1, 1>>
    /\ p.lowcut = None
    /\ p.highcut = None
    /\ p.amplitude = <<1, 1>>

\* C20: a generator built without overrides from a missing name or from a
\* name that is not a preset uses the defaults of the pink preset.
C20_UnknownNameIsPink ==
    (fft_params.built /\ NoOverrides(fft_params.params)
       /\ NotAPreset(fft_params.params.name))
        => PinkDefaults(fft_params)



(***************************************************************************)
(* StreamingNoise: the sweep parameters, the biquad stage states and the   *)
(* overlap-add signal path.  A stage state (z1, z2) is held as the         *)
(* sequence of the samples the stage has processed: <<>> is the zero state *)
(* of BiquadState64::new.  Gains and transition fractions are exact        *)
(* fractions <<numerator, denominator>>.                                   *)
(***************************************************************************)
RECURSIVE Gcd(_, _)
Gcd(a, b) == IF b = 0 THEN a ELSE Gcd(b, a % b)

\* a fraction in lowest terms
Reduced(q) == LET g == Gcd(q[1], q[2]) IN <<q[1] \div g, q[2] \div g>>

RatLess(a, b) == a[1] * b[2] < b[1] * a[2]

\* f32::clamp on fractions
RatClamp(q, lo, hi) == IF RatLess(q, lo) THEN lo ELSE IF RatLess(hi, q) THEN hi ELSE q

HOP_SIZE == BLOCK_SIZE \div 2

\* params.sweeps as the caller passes them: start_casc and end_casc
RawSweeps == [start_casc : 0..MaxCasc, end_casc : 0..MaxCasc]

SweepLists(n) == UNION {[1..k -> RawSweeps] : k \in 0..n}

\* build_sweep_params: a count of 0 takes the default
build_sweep(sw) ==
    LET start_casc == IF sw.start_casc > 0 THEN sw.start_casc ELSE DefaultCasc
    IN [start_casc |-> start_casc,
        end_casc |-> IF sw.end_casc > 0 THEN sw.end_casc ELSE start_casc]

build_sweep_params(sweeps) == [i \in 1..Len(sweeps) |-> build_sweep(sweeps[i])]

\* sp.start_casc.max(sp.end_casc).max(1)
needed_casc(sp) == Max(Max(sp.start_casc, sp.end_casc), 1)

SweepRuntime_new(max_casc) ==
    LET n == Max(max_casc, 1)
        fresh == [stage \in 1..n |-> <<>>]
    IN [max_casc |-> n, l_main |-> fresh, r_main |-> fresh,
        l_extra |-> fresh, r_extra |-> fresh]

\* what the last call did; before is the engine a rejected update found,
\* casc the most stages a sample of the call ran through in each sweep, and
\* block the record of the last block the call processed
NoUpdate ==
    [op |-> "none", accepted |-> FALSE, fits |-> FALSE, casc |-> <<>>,
     before |-> <<>>, block |-> <<>>]

\* the fields of the engine that update_realtime_params may write
EngineParams(e) ==
    [sweep_params |-> e.sweep_params, sweep_runtime |-> e.sweep_runtime,
     transition |-> e.transition, do_extra |-> e.do_extra]

\* the accumulator ring holds two blocks
acc_size == BLOCK_SIZE * 2

\* sample k of the base noise that generate draws, counted from 1; a sample
\* carries the stage counts of the filter passes it went through and the
\* compensation gain it was multiplied by.  Sample 0 is the value 0.0.
BaseSample(k) == [x |-> k, passes |-> <<>>, gain |-> None]

Silence == BaseSample(0)

\* OlaState::new; an accumulator slot lists the terms added to it since it
\* was cleared, each with the window index w that weighs it and the absolute
\* sample index it belongs to; emitted lists the frames put out
OlaState_new ==
    [input_ring |-> [i \in 1..BLOCK_SIZE |-> Silence],
     input_write_pos |-> 0,
     input_samples_buffered |-> 0,
     out_acc_l |-> [i \in 1..acc_size |-> <<>>],
     out_acc_r |-> [i \in 1..acc_size |-> <<>>],
     win_acc |-> [i \in 1..acc_size |-> <<>>],
     acc_read_pos |-> 0,
     acc_write_pos |-> 0,
     samples_ready |-> 0,
     absolute_block_start |-> 0,
     smoothed_gain_l |-> <<1, 1>>,
     smoothed_gain_r |-> <<1, 1>>,
     emitted |-> <<>>]

\* (params.duration_seconds * sample_rate_f) as usize
Durations == {0, HOP_SIZE + 1}

\* StreamingNoise::new; with no sweep the constructor draws RENORM_WINDOW
\* samples from the base noise and discards them before the first generate
NewEngine(sweeps, intra, transition, duration_samples) ==
    [pc |-> "live",
     duration_samples |-> duration_samples,
     sweep_params |-> build_sweep_params(sweeps),
     sweep_runtime |->
         [i \in 1..Len(sweeps) |->
             SweepRuntime_new(needed_casc(build_sweep(sweeps[i])))],
     do_extra |-> intra,
     transition |-> transition,
     warmed_up |-> IF sweeps = <<>> THEN RENORM_WINDOW ELSE 0,
     drawn |-> 0,
     total_samples_output |-> 0,
     frames_asked |-> 0,
     last |-> NoUpdate,
     budget |-> sn.budget]

\* the engine and its overlap-add state as StreamingNoise::new builds them;
\* the base generator is left aside
StreamingNoise_new(sweeps, intra, transition, duration_samples) ==
    /\ sn.pc = "unbuilt"
    /\ sn' = NewEngine(sweeps, intra, transition, duration_samples)
    /\ ola' = OlaState_new
    /\ UNCHANGED <<gen, req_chan, res_chan, nw, nhist, nbudget, fft_params,
                   renorm>>
    /\ UNCHANGED deliveryVars

\* the index of the first sweep whose needed count exceeds rt.max_casc, or
\* 0 when the loop over the sweeps runs to its end
FirstTooDeep(runtime, sweep_params) ==
    LET too_deep == {i \in 1..Len(sweep_params) :
                        needed_casc(sweep_params[i]) > runtime[i].max_casc}
    IN IF too_deep = {} THEN 0
       ELSE CHOOSE i \in too_deep : \A j \in too_deep : i <= j

RuntimeAfterUpdate_reset(rt, max_casc) == SweepRuntime_new(max_casc)

\* rt.max_casc = max_casc
RuntimeAfterUpdate(rt, max_casc) == [rt EXCEPT !.max_casc = max_casc]

\* the stage capacity allocated at creation covers the update
FitsAllocated(runtime, sweep_params) ==
    /\ Len(sweep_params) = Len(runtime)
    /\ \A i \in 1..Len(sweep_params) :
          needed_casc(sweep_params[i]) <= Len(runtime[i].l_main)

\* StreamingNoise::update_realtime_params; the loop over the sweeps has
\* lowered rt.max_casc of the sweeps before the one that makes it return
update_realtime_params(sweeps, intra, transition) ==
    /\ sn.pc = "live"
    /\ sn.budget.updates > 0
    /\ LET sweep_params == build_sweep_params(sweeps)
           same_len == Len(sweeps) = Len(sn.sweep_params)
           stop == IF same_len
                   THEN FirstTooDeep(sn.sweep_runtime, sweep_params)
                   ELSE 0
           accepted == same_len /\ stop = 0
           visited == IF ~same_len THEN 0
                      ELSE IF stop = 0 THEN Len(sweeps) ELSE stop - 1
           runtime == [i \in 1..Len(sn.sweep_runtime) |->
                          IF i <= visited
                          THEN RuntimeAfterUpdate(sn.sweep_runtime[i],
                                                  needed_casc(sweep_params[i]))
                          ELSE sn.sweep_runtime[i]]
       IN sn' = [sn EXCEPT
                   !.sweep_runtime = runtime,
                   !.sweep_params = IF accepted THEN sweep_params ELSE @,
                   !.transition = IF accepted THEN transition ELSE @,
                   !.do_extra = IF accepted THEN intra ELSE @,
                   !.last = [NoUpdate EXCEPT
                               !.op = "update",
                               !.accepted = accepted,
                               !.fits = FitsAllocated(sn.sweep_runtime,
                                                      sweep_params),
                               !.before = IF accepted THEN <<>>
                                          ELSE EngineParams(sn)],
                   !.budget.updates = @ - 1]
    /\ UNCHANGED <<gen, req_chan, res_chan, nw, nhist, nbudget, fft_params,
                   renorm, ola>>
    /\ UNCHANGED deliveryVars

clamp_unit_off(q) == q

\* f32::clamp(0.0, 1.0)
clamp_unit(q) == RatClamp(q, <<0, 1>>, <<1, 1>>)

\* StreamingNoise::transition_fraction
transition_fraction(e, sample_idx) ==
    IF ~e.transition \/ e.duration_samples = 0
    THEN <<0, 1>>
    ELSE clamp_unit(Reduced(<<sample_idx, e.duration_samples>>))

\* casc_f.round().max(1.0) as usize, casc_f interpolated at fraction t
casc_at(sp, t) ==
    LET num == sp.start_casc * t[2] + (sp.end_casc - sp.start_casc) * t[1]
    IN Max((2 * num + t[2]) \div (2 * t[2]), 1)

casc_series_unclamped(casc, rt) == casc

\* self.ola.casc_series[i].min(rt.max_casc).max(1)
casc_series_clamped(casc, rt) == Max(Min(casc, rt.max_casc), 1)

\* the stages sample i runs through in biquad_time_varying_block
stages_run(casc_counts, state, i) ==
    IF casc_counts[i] < 1 THEN 1
    ELSE IF casc_counts[i] > Len(state) THEN Len(state)
    ELSE casc_counts[i]

\* biquad_time_varying_block: in_range holds the samples of the block whose
\* notch frequency is finite, positive and below 0.49 * sample_rate, the
\* others are skipped.  The state of a stage is the sequence of the samples
\* that were fed through it.
biquad_time_varying_block(blk, in_range, casc_counts, state) ==
    LET fed(stage) ==
            LET f[n \in 0..Len(blk)] ==
                    IF n = 0 THEN state[stage]
                    ELSE IF n \in in_range
                            /\ stage <= stages_run(casc_counts, state, n)
                         THEN Append(f[n - 1], blk[n].x)
                         ELSE f[n - 1]
            IN f[Len(blk)]
    IN [block |-> [i \in 1..Len(blk) |->
                      IF i \in in_range
                      THEN [blk[i] EXCEPT
                              !.passes = Append(@, stages_run(casc_counts,
                                                              state, i))]
                      ELSE blk[i]],
        state |-> [stage \in 1..Len(state) |-> fed(stage)]]

\* the sample offsets of a block, counted from 1
Offsets == 1..BLOCK_SIZE

\* the notch frequency series of a block, by the samples at which each is
\* in range
FreqInputs ==
    {[l_main |-> Offsets, r_main |-> Offsets,
      l_extra |-> Offsets, r_extra |-> Offsets],
     [l_main |-> {}, r_main |-> {}, l_extra |-> {}, r_extra |-> {}],
     [l_main |-> {1}, r_main |-> Offsets \ {1},
      l_extra |-> Offsets, r_extra |-> {}],
     [l_main |-> Offsets \ {2}, r_main |-> Offsets,
      l_extra |-> {}, r_extra |-> Offsets]}

\* the two extra passes of a sweep, after the main ones lm and rm
ExtraPasses(rt, lm, rm, freq, clamped, casc_series, do_extra) ==
    LET le == IF do_extra
              THEN biquad_time_varying_block(lm.block, freq.l_extra, clamped,
                                             rt.l_extra)
              ELSE [block |-> lm.block, state |-> rt.l_extra]
        re == IF do_extra
              THEN biquad_time_varying_block(rm.block, freq.r_extra, clamped,
                                             rt.r_extra)
              ELSE [block |-> rm.block, state |-> rt.r_extra]
        run == {stages_run(clamped, rt.l_main, i) : i \in DOMAIN clamped}
    IN [block_l |-> le.block,
        block_r |-> re.block,
        casc_series |-> casc_series,
        deepest |-> CHOOSE c \in run : \A d \in run : d <= c,
        rt |-> [max_casc |-> rt.max_casc,
                l_main |-> lm.state, r_main |-> rm.state,
                l_extra |-> le.state, r_extra |-> re.state]]

\* the passes of a sweep with the cascade counts given
FilterWith(rt, block_l, block_r, freq, clamped, casc_series, do_extra) ==
    ExtraPasses(rt,
                biquad_time_varying_block(block_l, freq.l_main, clamped,
                                          rt.l_main),
                biquad_time_varying_block(block_r, freq.r_main, clamped,
                                          rt.r_main),
                freq, clamped, casc_series, do_extra)

\* the cascade counts of a sweep at the samples of a block
CascSeries(sp, t_vals) == [i \in DOMAIN t_vals |-> casc_at(sp, t_vals[i])]

ClampedSeries(casc_series, rt) ==
    [i \in DOMAIN casc_series |-> casc_series_clamped(casc_series[i], rt)]

\* the filtering of process_ola_block for one sweep
FilterSweep(sp, rt, block_l, block_r, t_vals, freq, do_extra) ==
    FilterWith(rt, block_l, block_r, freq,
               ClampedSeries(CascSeries(sp, t_vals), rt),
               CascSeries(sp, t_vals), do_extra)

\* OLA_GAIN_SMOOTHING_COEFF, scaled from 0.998 with the block length: the
\* gain settles within a block
OLA_GAIN_SMOOTHING_COEFF == <<1, 2>>

clamp_gain_off(q) == q

\* f32::clamp(0.25, 16.0)
clamp_gain(q) == RatClamp(q, <<1, 4>>, <<16, 1>>)

\* ratio_diff > OLA_RMS_HYSTERESIS_RATIO, ratio_diff the distance of the raw
\* target from the gain over the gain, or over 0.01 if that is more
OutsideHysteresis(raw, gain) ==
    LET d == raw[1] * gain[2] - gain[1] * raw[2]
        dist == IF d < 0 THEN 0 - d ELSE d
    IN IF RatLess(gain, <<1, 100>>)
       THEN 2000 * dist > 3 * raw[2] * gain[2]
       ELSE 20 * dist > 3 * raw[2] * gain[1]

\* the target gain of a channel; ratio is rms_in over the RMS of the
\* filtered channel, None when that RMS is at most 1e-8
target_gain_of(ratio, gain) ==
    LET raw_target == IF ratio # None THEN clamp_gain(ratio[1]) ELSE gain
    IN IF OutsideHysteresis(raw_target, gain) THEN raw_target ELSE gain

\* smooth_coeff * smoothed_gain + one_minus_coeff * target_gain
smooth(gain, target) ==
    LET c == OLA_GAIN_SMOOTHING_COEFF
    IN Reduced(<<c[1] * gain[1] * target[2] + (c[2] - c[1]) * target[1] * gain[2],
                 c[2] * gain[2] * target[2]>>)

\* the smoothed gain after each sample of a block
GainSeries(gain, target) ==
    LET g[n \in 0..BLOCK_SIZE] ==
            IF n = 0 THEN gain ELSE smooth(g[n - 1], target)
    IN [i \in Offsets |-> g[i]]

\* the levels of a block: whether rms_in exceeds 1e-8, and rms_in over the
\* RMS of each filtered channel
NeutralLevels == [rms_in |-> TRUE, l |-> Some(<<1, 1>>), r |-> Some(<<1, 1>>)]

LevelInputs ==
    {NeutralLevels,
     [rms_in |-> FALSE, l |-> Some(<<4, 1>>), r |-> Some(<<4, 1>>)],
     [rms_in |-> TRUE, l |-> Some(<<1, 8>>), r |-> Some(<<32, 1>>)],
     [rms_in |-> TRUE, l |-> None, r |-> Some(<<2, 1>>)],
     [rms_in |-> TRUE, l |-> Some(<<9, 8>>), r |-> Some(<<1, 2>>)]}

\* the slot of the input ring that holds sample i of the block
ring_idx(o, i) ==
    (o.input_write_pos + BLOCK_SIZE - o.input_samples_buffered + i)
        % BLOCK_SIZE

\* hann_window(BLOCK_SIZE)[i] > 0: the window is 0 at both ends
HannPositive(i) == i # 0 /\ i # BLOCK_SIZE - 1

\* the filtered block so far with the result of one more sweep
AfterSweep(done, pass) ==
    [block_l |-> pass.block_l,
     block_r |-> pass.block_r,
     runtime |-> Append(done.runtime, pass.rt),
     casc_series |-> Append(done.casc_series, pass.casc_series),
     deepest |-> Append(done.deepest, pass.deepest)]

\* for (si, sp) in self.sweep_params.iter().enumerate(), from sweep k on
RECURSIVE FilterSweeps(_, _, _, _, _)
FilterSweeps(e, k, done, t_vals, freq) ==
    IF k > Len(e.sweep_params) THEN done
    ELSE FilterSweeps(e, k + 1,
                      AfterSweep(done,
                                 FilterSweep(e.sweep_params[k],
                                             e.sweep_runtime[k],
                                             done.block_l, done.block_r,
                                             t_vals, freq, e.do_extra)),
                      t_vals, freq)

\* the block multiplied by the smoothed gain of each of its samples
Gained(blk, gains) ==
    [i \in DOMAIN blk |-> [blk[i] EXCEPT !.gain = Some(gains[i])]]

\* the term a block (or the window) adds to an accumulator slot
Added(slot, acc_idx, terms, o) ==
    LET written == {i \in DOMAIN terms :
                       (o.acc_write_pos + i - 1) % acc_size = acc_idx}
    IN IF written = {} THEN slot
       ELSE LET i == CHOOSE i \in written : TRUE
            IN Append(slot, [v |-> terms[i], w |-> i - 1,
                             at |-> o.absolute_block_start + i - 1])

\* the overlap-add of the windowed blocks and the advance by a hop
OverlapAdd(o, block_l, block_r, gain_l, gain_r) ==
    [o EXCEPT
       !.smoothed_gain_l = gain_l,
       !.smoothed_gain_r = gain_r,
       !.out_acc_l = [p \in 1..acc_size |-> Added(@[p], p - 1, block_l, o)],
       !.out_acc_r = [p \in 1..acc_size |-> Added(@[p], p - 1, block_r, o)],
       !.win_acc = [p \in 1..acc_size |->
                       Added(@[p], p - 1, [i \in Offsets |-> i - 1], o)],
       !.acc_write_pos = (@ + HOP_SIZE) % acc_size,
       !.samples_ready = @ + HOP_SIZE,
       !.absolute_block_start = @ + HOP_SIZE]

\* the RMS compensation, the windowing and the overlap-add of the filtered
\* block out
Compensate(e, o, input, base, t_vals, out, gains_l, gains_r) ==
    LET compensates == e.sweep_params # <<>> /\ input.levels.rms_in
    IN [e |-> [e EXCEPT
                 !.sweep_runtime = out.runtime,
                 !.last = [NoUpdate EXCEPT
                             !.op = "block",
                             !.casc = [k \in 1..Len(e.sweep_params) |->
                                          Max(IF e.last.op = "block"
                                              THEN e.last.casc[k] ELSE 0,
                                              out.deepest[k])],
                             !.block = [start |-> o.absolute_block_start,
                                        base |-> base,
                                        freq |-> input.freq,
                                        t_vals |-> t_vals,
                                        casc_series |-> out.casc_series,
                                        runtime |-> e.sweep_runtime,
                                        do_extra |-> e.do_extra,
                                        block_l |-> out.block_l,
                                        block_r |-> out.block_r,
                                        gains_l |-> IF compensates
                                                    THEN gains_l ELSE <<>>,
                                        gains_r |-> IF compensates
                                                    THEN gains_r ELSE <<>>,
                                        after |-> <<>>]]],
        o |-> IF compensates
              THEN OverlapAdd(o, Gained(out.block_l, gains_l),
                              Gained(out.block_r, gains_r),
                              gains_l[BLOCK_SIZE], gains_r[BLOCK_SIZE])
              ELSE OverlapAdd(o, out.block_l, out.block_r,
                              o.smoothed_gain_l, o.smoothed_gain_r)]

\* the block from the filtering on
FilterBlock(e, o, input, base, t_vals) ==
    Compensate(e, o, input, base, t_vals,
               FilterSweeps(e, 1,
                            [block_l |-> base, block_r |-> base,
                             runtime |-> <<>>, casc_series |-> <<>>,
                             deepest |-> <<>>],
                            t_vals, input.freq),
               GainSeries(o.smoothed_gain_l,
                          target_gain_of(input.levels.l, o.smoothed_gain_l)),
               GainSeries(o.smoothed_gain_r,
                          target_gain_of(input.levels.r, o.smoothed_gain_r)))

\* StreamingNoise::process_ola_block
process_ola_block(e, o, input) ==
    FilterBlock(e, o, input,
                [i \in Offsets |-> o.input_ring[ring_idx(o, i - 1) + 1]],
                [i \in Offsets |->
                    transition_fraction(e, o.absolute_block_start + i - 1)])

\* win_val > 1e-8: a term of the slot has a positive window weight
WindowWeighs(slot) == \E k \in 1..Len(slot) : HannPositive(slot[k].w)

\* out_acc / win_val: terms of weight 0 add nothing; when all the others
\* carry one and the same sample the quotient is that sample
Normalized(slot) ==
    LET weighed == SelectSeq(slot, LAMBDA c : HannPositive(c.w))
    IN IF \A k \in 1..Len(weighed) : weighed[k].v = weighed[1].v
       THEN weighed[1].v
       ELSE [mix |-> weighed]

ClearedSlot_kept(slot) == slot

\* self.ola.out_acc_l[read_pos] = 0.0, and so for out_acc_r and win_acc
ClearedSlot(slot) == <<>>

\* the frame read at read_pos
Frame(o, weighs) ==
    [l |-> IF weighs THEN Normalized(o.out_acc_l[o.acc_read_pos + 1])
           ELSE Silence,
     r |-> IF weighs THEN Normalized(o.out_acc_r[o.acc_read_pos + 1])
           ELSE Silence]

EmitFrame_stays(s) ==
    [e |-> [s.e EXCEPT !.total_samples_output = @ + 1],
     o |-> [s.o EXCEPT
              !.emitted = Append(@, Frame(s.o, WindowWeighs(
                                         s.o.win_acc[s.o.acc_read_pos + 1]))),
              !.out_acc_l[s.o.acc_read_pos + 1] = ClearedSlot(@),
              !.out_acc_r[s.o.acc_read_pos + 1] = ClearedSlot(@),
              !.win_acc[s.o.acc_read_pos + 1] = ClearedSlot(@),
              !.samples_ready = @ - 1]]

\* the first branch of the loop of generate: one frame is put out
EmitFrame(s) ==
    [e |-> [s.e EXCEPT !.total_samples_output = @ + 1],
     o |-> [s.o EXCEPT
              !.emitted = Append(@, Frame(s.o, WindowWeighs(
                                         s.o.win_acc[s.o.acc_read_pos + 1]))),
              !.out_acc_l[s.o.acc_read_pos + 1] = ClearedSlot(@),
              !.out_acc_r[s.o.acc_read_pos + 1] = ClearedSlot(@),
              !.win_acc[s.o.acc_read_pos + 1] = ClearedSlot(@),
              !.acc_read_pos = (@ + 1) % acc_size,
              !.samples_ready = @ - 1]]

\* the input ring after `missing` samples were drawn from the base noise
FilledRing(o, drawn, missing) ==
    LET slot_of(j) == (o.input_write_pos + j) % BLOCK_SIZE
    IN [o EXCEPT
          !.input_ring =
              [p \in 1..BLOCK_SIZE |->
                  IF \E j \in 0..(missing - 1) : slot_of(j) = p - 1
                  THEN BaseSample(drawn + 1 +
                           (CHOOSE j \in 0..(missing - 1) :
                               slot_of(j) = p - 1))
                  ELSE @[p]],
          !.input_write_pos = (@ + missing) % BLOCK_SIZE,
          !.input_samples_buffered = BLOCK_SIZE]

\* the counters and positions of the overlap-add, with the base samples
\* drawn so far
Bookkeeping(e, o) ==
    [samples_ready |-> o.samples_ready,
     acc_read_pos |-> o.acc_read_pos,
     acc_write_pos |-> o.acc_write_pos,
     absolute_block_start |-> o.absolute_block_start,
     total_samples_output |-> e.total_samples_output,
     drawn |-> e.drawn]

\* self.ola.input_samples_buffered = BLOCK_SIZE - HOP_SIZE; the record of
\* the block keeps the bookkeeping the block left
Consumed(s) ==
    [e |-> [s.e EXCEPT !.last.block.after = Bookkeeping(s.e, s.o)],
     o |-> [s.o EXCEPT !.input_samples_buffered = BLOCK_SIZE - HOP_SIZE]]

\* the second branch: the input ring is filled from the base noise up to
\* BLOCK_SIZE samples, a block is processed, and half a block stays buffered
FillAndProcess(s, input) ==
    Consumed(process_ola_block(
                 [s.e EXCEPT
                    !.drawn = @ + BLOCK_SIZE - s.o.input_samples_buffered],
                 FilledRing(s.o, s.e.drawn,
                        BLOCK_SIZE - s.o.input_samples_buffered),
                 input))

\* while frames_written < frames
RECURSIVE GenerateLoop(_, _, _)
GenerateLoop(s, frames_left, input) ==
    IF frames_left = 0 THEN s
    ELSE IF s.o.samples_ready > 0
    THEN GenerateLoop(EmitFrame(s), frames_left - 1, input)
    ELSE GenerateLoop(FillAndProcess(s, input), frames_left, input)

\* the blocks a call for so many frames processes
BlocksOf(frames) ==
    CeilDiv(saturating_sub(frames, ola.samples_ready), HOP_SIZE)

\* the engine after the call
Generated(s, blocks) ==
    /\ sn' = [s.e EXCEPT !.budget.blocks = @ - blocks]
    /\ ola' = s.o

\* StreamingNoise::generate with an out of 2 * frames samples; input holds
\* the notch frequencies and the levels of the blocks the call processes
GenerateCall(frames, input) ==
    /\ sn.pc = "live"
    /\ BlocksOf(frames) <= sn.budget.blocks
    /\ Generated(GenerateLoop([e |-> [sn EXCEPT
                                        !.frames_asked = @ + frames,
                                        !.last = [NoUpdate EXCEPT
                                                    !.op = "emit"]],
                               o |-> ola],
                              frames, input),
                 BlocksOf(frames))

\* generate on the engine and its overlap-add state, the base generator
\* left aside
generate(frames, input) ==
    /\ GenerateCall(frames, input)
    /\ UNCHANGED <<gen, req_chan, res_chan, nw, nhist, nbudget, fft_params,
                   renorm>>
    /\ UNCHANGED deliveryVars

\* self.generate(&mut scratch) with a scratch of n frames
skip_samples(n, input) == generate(n, input)

\* an engine yet to be created, with what the environment may do to it
EngineInitWith(updates, blocks) ==
    /\ DeliveryInit(0, 0, {1}, {"f32"}, {FALSE})
    /\ gen = NoGen
    /\ req_chan = <<>>
    /\ res_chan = <<>>
    /\ nw = NoNoiseWorker
    /\ nhist = NoNoiseHistory
    /\ nbudget = [calls |-> 0, panics |-> 0, silent |-> 0]
    /\ sn = [pc |-> "unbuilt",
             budget |-> [updates |-> updates, blocks |-> blocks]]
    /\ fft_params = NoParams
    /\ renorm = NoRenorm
    /\ ola = NoOla

\* the sweep lists of the parameter updates: none, one or two sweeps
SweepInputs == SweepLists(MaxSweeps)

\* creation and parameter updates of an engine that is not generating
SweepInit == EngineInitWith(MaxUpdates, 0)

SweepNext ==
    \/ \E sweeps \in SweepInputs :
          StreamingNoise_new(sweeps, FALSE, FALSE, 0)
    \/ \E sweeps \in SweepInputs :
          update_realtime_params(sweeps, FALSE, FALSE)

SweepSpec == SweepInit /\ [][SweepNext]_vars

\* the sweep lists of a generating engine: no sweep or one
EngineInputs == SweepLists(1)

\* the frames of a call: up to a hop and one more
Frames == 1..(HOP_SIZE + 1)

\* the blocks of a generating engine with the levels left as they are
CalmInputs == {[freq |-> f, levels |-> NeutralLevels] : f \in FreqInputs}

\* the blocks of a generating engine: the extra pass of the left channel
\* has every sample in range, the main pass every sample or the first only
EngineBlocks == {input \in CalmInputs : input.freq.l_extra = Offsets}

\* a generating engine with one sweep at most and one parameter update
EngineInit == EngineInitWith(1, MaxBlocks)

\* the update changes the sweeps and passes the other settings as they are
EngineNext ==
    \/ \E sweeps \in EngineInputs, intra, transition \in BOOLEAN,
          duration_samples \in Durations :
          StreamingNoise_new(sweeps, intra, transition, duration_samples)
    \/ \E sweeps \in EngineInputs :
          update_realtime_params(sweeps, sn.do_extra, sn.transition)
    \/ \E frames \in Frames, input \in EngineBlocks : generate(frames, input)
    \/ \E input \in EngineBlocks : skip_samples(HOP_SIZE, input)

EngineSpec == EngineInit /\ [][EngineNext]_vars

\* a block whose notch frequencies are all in range and whose levels are
\* left as they are
RingInput == [freq |-> [l_main |-> Offsets, r_main |-> Offsets,
                        l_extra |-> Offsets, r_extra |-> Offsets],
              levels |-> NeutralLevels]

\* an engine that generates until the accumulator ring has wrapped around
RingInit == EngineInitWith(0, RingBlocks)

RingNext ==
    \/ \E sweeps \in EngineInputs, intra \in BOOLEAN :
          StreamingNoise_new(sweeps, intra, FALSE, 0)
    \/ \E frames \in Frames : generate(frames, RingInput)

RingSpec == RingInit /\ [][RingNext]_vars

\* the blocks of an engine whose filtered channels vary in level
LevelBlocks == {[freq |-> RingInput.freq, levels |-> v] : v \in LevelInputs}

GainInit == EngineInitWith(0, MaxBlocks)

GainNext ==
    \/ \E sweeps \in EngineInputs :
          StreamingNoise_new(sweeps, FALSE, FALSE, 0)
    \/ \E frames \in Frames, input \in LevelBlocks : generate(frames, input)

GainSpec == GainInit /\ [][GainNext]_vars

\* the sweep lists of an engine with two sweeps
CascInputs == [1..2 -> RawSweeps]

\* an engine with two sweeps that takes one parameter update and processes
\* one block
CascInit == EngineInitWith(1, 1)

CascNext ==
    \/ \E sweeps \in CascInputs, intra, transition \in BOOLEAN :
          StreamingNoise_new(sweeps, intra, transition, HOP_SIZE + 1)
    \/ \E sweeps \in CascInputs :
          update_realtime_params(sweeps, sn.do_extra, sn.transition)
    \/ \E input \in CalmInputs : generate(HOP_SIZE, input)

CascSpec == CascInit /\ [][CascNext]_vars



(***************************************************************************)
(* Properties of the sweep engine.                                         *)
(***************************************************************************)
\* C18: update_realtime_params accepts an update exactly when the number of
\* sweeps is unchanged and no sweep needs more stages than were allocated
\* when the engine was created, whatever updates came before.
C18_AcceptsWithinAllocation ==
    (sn.pc = "live" /\ sn.last.op = "update") =>
        (sn.last.accepted <=> sn.last.fits)

\* the stage states of all four banks of a sweep runtime
Banks(rt) == <<rt.l_main, rt.r_main, rt.l_extra, rt.r_extra>>

\* state t is state s after more samples were fed
Extends(t, s) == Len(t) > Len(s) /\ SubSeq(t, 1, Len(s)) = s

\* from rt to rt2 no stage state slot was added or removed, and a stage
\* state changed only if it is one of the first casc stages of a bank
OnlyProcessed(rt, rt2, casc) ==
    \A b \in 1..4 :
        /\ Len(Banks(rt2)[b]) = Len(Banks(rt)[b])
        /\ \A stage \in 1..Len(Banks(rt)[b]) :
              \/ Banks(rt2)[b][stage] = Banks(rt)[b][stage]
              \/ /\ Extends(Banks(rt2)[b][stage], Banks(rt)[b][stage])
                 /\ stage <= casc

\* C19: no operation on a live engine zeroes a biquad stage state or changes
\* the number of stage state slots; a stage state changes only in a step
\* that processes a block through that stage.
C19_StageStatesPersist ==
    [][sn.pc = "live" =>
          /\ sn'.pc = "live"
          /\ Len(sn'.sweep_runtime) = Len(sn.sweep_runtime)
          /\ \A i \in 1..Len(sn.sweep_runtime) :
                OnlyProcessed(sn.sweep_runtime[i], sn'.sweep_runtime[i],
                              IF sn'.last.op = "block"
                              THEN sn'.last.casc[i] ELSE 0)]_vars

\* an accepted update lowered the cascade count of a sweep whose stages had
\* processed samples, and the states of all its stages are still there
C19_Witness ==
    /\ sn.pc = "live"
    /\ sn.last.op = "update"
    /\ sn.last.accepted
    /\ Len(sn.sweep_runtime) = 1
    /\ sn.sweep_runtime[1].max_casc < Len(sn.sweep_runtime[1].l_main)
    /\ \A stage \in 1..Len(sn.sweep_runtime[1].l_main) :
          sn.sweep_runtime[1].l_main[stage] # <<>>

\* C28: an update_realtime_params call that returns false leaves the
\* engine as it found it: the parameters and the current cascade limit of
\* every sweep, the stage states, and the transition and pass settings.
C28_RejectedUpdateChangesNothing ==
    (sn.pc = "live" /\ sn.last.op = "update" /\ ~sn.last.accepted) =>
        EngineParams(sn) = sn.last.before

\* C21: with no sweeps configured, output frame n of generate carries on
\* both channels the n-th sample drawn from the base noise, for every n from
\* the first frame on and for any split of the output across generate calls.
C21_PassthroughEveryFrame ==
    (sn.pc = "live" /\ sn.sweep_params = <<>>) =>
        \A n \in 1..Len(ola.emitted) :
            /\ ola.emitted[n].l = BaseSample(n)
            /\ ola.emitted[n].r = BaseSample(n)

\* with no sweeps every frame after the first carries its base sample on
\* both channels
C21_LaterFramesPass ==
    (sn.pc = "live" /\ sn.sweep_params = <<>>) =>
        \A n \in 2..Len(ola.emitted) :
            /\ ola.emitted[n].l = BaseSample(n)
            /\ ola.emitted[n].r = BaseSample(n)

\* the stages a sample runs through when casc are asked for and limit is
\* the cascade limit of the sweep
ClampedCount(casc, limit) ==
    IF casc < 1 THEN 1 ELSE IF casc > limit THEN limit ELSE casc

\* the members of a set of offsets in rising order
InOrder(S) ==
    LET f[n \in 0..BLOCK_SIZE] ==
            IF n = 0 THEN <<>>
            ELSE IF n \in S THEN Append(f[n - 1], n) ELSE f[n - 1]
    IN f[BLOCK_SIZE]

\* the base samples of block b that a pass feeds through a stage: those in
\* range whose clamped count reaches the stage, in the order of the block
FedThrough(b, k, in_range, stage) ==
    LET through ==
            InOrder({i \in Offsets :
                        /\ i \in in_range
                        /\ stage <= ClampedCount(b.casc_series[k][i],
                                                 b.runtime[k].max_casc)})
    IN [j \in 1..Len(through) |-> b.base[through[j]].x]

\* a bank went from state `before` to state `after` by the pass alone
BankFed(b, k, in_range, before, after) ==
    /\ Len(after) = Len(before)
    /\ \A stage \in 1..Len(before) :
          after[stage] = before[stage] \o FedThrough(b, k, in_range, stage)

\* the stage counts sample i of a channel went through from sweep k on
RECURSIVE PassesFrom(_, _, _, _, _)
PassesFrom(b, k, i, main, extra) ==
    IF k > Len(b.casc_series) THEN <<>>
    ELSE LET count == ClampedCount(b.casc_series[k][i], b.runtime[k].max_casc)
         IN (IF i \in main THEN <<count>> ELSE <<>>)
            \o (IF b.do_extra /\ i \in extra THEN <<count>> ELSE <<>>)
            \o PassesFrom(b, k + 1, i, main, extra)

\* C24: for each sample of a block the stages whose state is updated are
\* the first clamp(round(interpolated cascade count), 1, current cascade
\* limit of the sweep) ones, in order, and the higher ones are left as they
\* are; a sample whose notch frequency is out of range is left as it is and
\* changes no stage state.
C24_StagesPerSample ==
    (sn.pc = "live" /\ sn.last.op = "block") =>
        LET b == sn.last.block
        IN /\ \A k \in 1..Len(sn.sweep_runtime) :
                 /\ BankFed(b, k, b.freq.l_main, b.runtime[k].l_main,
                            sn.sweep_runtime[k].l_main)
                 /\ BankFed(b, k, b.freq.r_main, b.runtime[k].r_main,
                            sn.sweep_runtime[k].r_main)
                 /\ BankFed(b, k, IF b.do_extra THEN b.freq.l_extra ELSE {},
                            b.runtime[k].l_extra, sn.sweep_runtime[k].l_extra)
                 /\ BankFed(b, k, IF b.do_extra THEN b.freq.r_extra ELSE {},
                            b.runtime[k].r_extra, sn.sweep_runtime[k].r_extra)
           /\ \A i \in Offsets :
                 /\ b.block_l[i].x = b.base[i].x
                 /\ b.block_r[i].x = b.base[i].x
                 /\ b.block_l[i].passes =
                        PassesFrom(b, 1, i, b.freq.l_main, b.freq.l_extra)
                 /\ b.block_r[i].passes =
                        PassesFrom(b, 1, i, b.freq.r_main, b.freq.r_extra)

\* a block ran a sample through fewer stages than its sweep asked for,
\* because the cascade limit of the sweep is lower, and skipped a sample
\* whose frequency is out of range
C24_Witness ==
    /\ sn.pc = "live"
    /\ sn.last.op = "block"
    /\ \E k \in 1..Len(sn.sweep_runtime) :
          /\ sn.last.block.casc_series[k][1] > sn.last.block.runtime[k].max_casc
          /\ 1 \in sn.last.block.freq.l_main
          /\ sn.sweep_runtime[k].l_main[1] = <<sn.last.block.base[1].x>>
          /\ \A stage \in 2..Len(sn.sweep_runtime[k].l_main) :
                sn.sweep_runtime[k].l_main[stage] = <<>>
    /\ 2 \notin sn.last.block.freq.l_main
    /\ sn.last.block.block_l[2] = sn.last.block.base[2]

\* the window index and the absolute sample index of the terms of a slot
Tags(slot) == [k \in 1..Len(slot) |-> <<slot[k].w, slot[k].at>>]

\* C25: a slot of the accumulator ring holds terms of one absolute sample
\* only, the one it stands for, and that sample was not put out yet: when
\* a block writes a slot, the slot is clear unless an earlier block that is
\* not drained yet overlaps it, and every slot is read and cleared once
\* before it is used again, in the sample sums and in the window weights
\* alike.
C25_SlotsDrainedBeforeReuse ==
    sn.pc = "live" =>
        /\ Len(ola.emitted) = sn.total_samples_output
        /\ \A p \in 1..acc_size :
              /\ Tags(ola.out_acc_l[p]) = Tags(ola.win_acc[p])
              /\ Tags(ola.out_acc_r[p]) = Tags(ola.win_acc[p])
              /\ \A k \in 1..Len(ola.win_acc[p]) :
                    /\ ola.win_acc[p][k].at = ola.win_acc[p][1].at
                    /\ ola.win_acc[p][k].at % acc_size = p - 1
                    /\ ola.win_acc[p][k].at >= sn.total_samples_output
                    /\ \A j \in 1..Len(ola.win_acc[p]) :
                          j # k => ola.win_acc[p][j].w # ola.win_acc[p][k].w

\* the ring has wrapped around: a slot that was read and cleared holds the
\* terms of two overlapping blocks for a later sample
C25_Witness ==
    /\ sn.pc = "live"
    /\ \E p \in 1..acc_size :
          /\ Len(ola.win_acc[p]) = 2
          /\ ola.win_acc[p][1].at >= acc_size

\* a gain within [0.25, 16]
GainInRange(g) == ~RatLess(g, <<1, 4>>) /\ ~RatLess(<<16, 1>>, g)

\* C26: with no sweeps both smoothed gains stay at 1.0; with sweeps each
\* smoothed gain is within [0.25, 16] after every sample of a block.
C26_GainsBounded ==
    sn.pc = "live" =>
        /\ sn.sweep_params = <<>> =>
              /\ ola.smoothed_gain_l = <<1, 1>>
              /\ ola.smoothed_gain_r = <<1, 1>>
              /\ sn.last.op = "block" =>
                    sn.last.block.gains_l = <<>> /\ sn.last.block.gains_r = <<>>
        /\ GainInRange(ola.smoothed_gain_l)
        /\ GainInRange(ola.smoothed_gain_r)
        /\ sn.last.op = "block" =>
              /\ \A i \in DOMAIN sn.last.block.gains_l :
                    GainInRange(sn.last.block.gains_l[i])
              /\ \A i \in DOMAIN sn.last.block.gains_r :
                    GainInRange(sn.last.block.gains_r[i])

\* an engine with a sweep whose filtered right channel came out far below
\* the input: the gain moved towards the upper limit, and the left gain
\* towards the lower one
C26_Witness ==
    /\ sn.pc = "live"
    /\ sn.sweep_params # <<>>
    /\ sn.last.op = "block"
    /\ RatLess(<<8, 1>>, ola.smoothed_gain_r)
    /\ RatLess(ola.smoothed_gain_l, <<1, 2>>)

\* C27: the transition fraction is 0 at sample index 0, does not decrease
\* with the sample index, is 1 at and beyond the duration, and is 0
\* throughout when no transition is declared or the duration is zero; a
\* sweep takes its start cascade count where the fraction is 0 and its end
\* count where it is 1.
C27_TransitionFraction ==
    (sn.pc = "live" /\ sn.last.op = "block") =>
        LET b == sn.last.block
            idx(i) == b.start + i - 1
        IN \A i \in Offsets :
              /\ (~sn.transition \/ sn.duration_samples = 0) =>
                     b.t_vals[i] = <<0, 1>>
              /\ idx(i) = 0 => b.t_vals[i] = <<0, 1>>
              /\ (sn.transition /\ sn.duration_samples > 0
                     /\ idx(i) >= sn.duration_samples) =>
                     b.t_vals[i] = <<1, 1>>
              /\ ~RatLess(b.t_vals[i], <<0, 1>>)
              /\ ~RatLess(<<1, 1>>, b.t_vals[i])
              /\ i > 1 => ~RatLess(b.t_vals[i], b.t_vals[i - 1])
              /\ \A k \in 1..Len(b.casc_series) :
                    /\ b.t_vals[i] = <<0, 1>> =>
                          b.casc_series[k][i] = sn.sweep_params[k].start_casc
                    /\ b.t_vals[i] = <<1, 1>> =>
                          b.casc_series[k][i] = sn.sweep_params[k].end_casc

\* a block that reaches across the end of the duration of a transition: its
\* fraction rises to 1 and stays there, and the sweep ends on its end count
C27_Witness ==
    /\ sn.pc = "live"
    /\ sn.last.op = "block"
    /\ sn.transition
    /\ sn.duration_samples > 0
    /\ sn.last.block.start < sn.duration_samples
    /\ sn.last.block.start + BLOCK_SIZE - 1 > sn.duration_samples
    /\ RatLess(<<0, 1>>, sn.last.block.t_vals[1])
    /\ RatLess(sn.last.block.t_vals[1], <<1, 1>>)
    /\ Len(sn.sweep_params) = 1
    /\ sn.sweep_params[1].start_casc # sn.sweep_params[1].end_casc
    /\ sn.last.block.casc_series[1][BLOCK_SIZE] = sn.sweep_params[1].end_casc

\* the blocks processed when so many base samples were drawn: the first
\* block draws BLOCK_SIZE samples and every later one HOP_SIZE
BlocksDrawn(drawn) ==
    IF drawn = 0 THEN 0 ELSE (drawn - BLOCK_SIZE) \div HOP_SIZE + 1

\* the bookkeeping b is consistent
Balanced(b) ==
    /\ 0 <= b.samples_ready
    /\ b.samples_ready <= HOP_SIZE
    /\ b.acc_write_pos = (b.acc_read_pos + b.samples_ready) % (2 * BLOCK_SIZE)
    /\ b.total_samples_output + b.samples_ready = b.absolute_block_start
    /\ b.absolute_block_start = HOP_SIZE * BlocksDrawn(b.drawn)

\* C32: after every step of generate, the emission of a frame or the
\* processing of a block, samples_ready is within 0..HOP_SIZE, acc_write_pos
\* is acc_read_pos + samples_ready modulo 2 * BLOCK_SIZE, and
\* total_samples_output + samples_ready = absolute_block_start = HOP_SIZE *
\* the blocks processed; the calls have written as many frames as they were
\* asked for.
C32_OlaBookkeeping ==
    sn.pc = "live" =>
        /\ Balanced(Bookkeeping(sn, ola))
        /\ BlocksDrawn(sn.drawn) = RingBlocks - sn.budget.blocks
        /\ sn.last.op = "block" => Balanced(sn.last.block.after)
        /\ Len(ola.emitted) = sn.frames_asked
        /\ sn.total_samples_output = sn.frames_asked

\* the last call processed a block that wrapped the write position around
\* the ring, and put out a part of its hop
C32_Witness ==
    /\ sn.pc = "live"
    /\ sn.last.op = "block"
    /\ sn.last.block.after.samples_ready = HOP_SIZE
    /\ sn.last.block.after.acc_write_pos = 0
    /\ sn.last.block.after.absolute_block_start = 2 * BLOCK_SIZE
    /\ ola.samples_ready = 1

\* C30: a cascade stage sees the base noise as one continuous sequence:
\* over the blocks no base sample is fed through a stage a second time or
\* out of stream order.
C30_StageFedOnceInOrder ==
    sn.pc = "live" =>
        \A k \in 1..Len(sn.sweep_runtime) :
            \A bank \in 1..4 :
                \A stage \in 1..Len(Banks(sn.sweep_runtime[k])[bank]) :
                    LET fed == Banks(sn.sweep_runtime[k])[bank][stage]
                    IN \A j \in 1..(Len(fed) - 1) : fed[j] < fed[j + 1]



(***************************************************************************)
(* FftNoiseGenerator::apply_post_filter_renorm.  A gain is held as the     *)
(* exact fraction <<numerator, denominator>> of its square, so that the    *)
(* ratio of two RMS values needs no square root.                           *)
(***************************************************************************)
\* pre * pre and post * post of the samples the caller passes
Energies == {0, 1, 400}

\* the fields FftNoiseGenerator::new gives the renormalisation; assigned
\* lists the assignments to renorm_gain with the call they happened in,
\* last_target is the target gain of the last full window
FreshRenorm ==
    [pc |-> "live",
     renorm_gain |-> <<1, 1>>,
     smoothed_gain |-> <<1, 1>>,
     renorm_initialized |-> FALSE,
     pre_rms_accum |-> 0,
     post_rms_accum |-> 0,
     rms_samples |-> 0,
     is_unmodulated |-> TRUE,
     calls |-> 0,
     assigned |-> <<>>,
     last_target |-> None,
     samples_left |-> renorm.samples_left]

FftNoiseGenerator_renorm_new ==
    /\ renorm.pc = "unbuilt"
    /\ renorm' = FreshRenorm
    /\ UNCHANGED <<gen, req_chan, res_chan, nw, nhist, nbudget, sn, fft_params,
                   ola>>
    /\ UNCHANGED deliveryVars

\* (pre_rms / post_rms).clamp(0.25, 16.0), squared
target_gain(pre_accum, post_accum) ==
    RatClamp(Reduced(<<pre_accum, post_accum>>), <<1, 16>>, <<256, 1>>)

MayLock_always(r) == TRUE

\* if !self.renorm_initialized
MayLock(r) == ~r.renorm_initialized

\* (target_gain - self.renorm_gain).abs() / self.renorm_gain
\*    > RENORM_HYSTERESIS_RATIO, on the squares: beyond 1.1^2 or below 0.9^2
BeyondHysteresis(target, gain) ==
    \/ RatLess(<<121 * gain[1], 100 * gain[2]>>, target)
    \/ RatLess(target, <<81 * gain[1], 100 * gain[2]>>)

\* the gain fields at the end of a full window
WindowEnd(r, call) ==
    LET loud == r.pre_rms_accum > 0 /\ r.post_rms_accum > 0
        target == IF loud THEN target_gain(r.pre_rms_accum, r.post_rms_accum)
                  ELSE <<1, 1>>
        locks == /\ MayLock(r)
                 /\ (loud /\ ~r.is_unmodulated) =>
                        BeyondHysteresis(target, r.renorm_gain)
        blends == /\ loud
                  /\ ~r.is_unmodulated
                  /\ r.renorm_initialized
                  /\ BeyondHysteresis(target, r.renorm_gain)
        gain == IF locks THEN target
                ELSE IF blends THEN [blend |-> <<r.renorm_gain, target>>]
                ELSE r.renorm_gain
    IN [r EXCEPT
          !.renorm_gain = gain,
          !.smoothed_gain = IF locks THEN target ELSE @,
          !.renorm_initialized = @ \/ locks,
          !.assigned = IF locks \/ blends
                       THEN Append(@, [call |-> call, gain |-> gain])
                       ELSE @,
          !.last_target = IF loud THEN Some(target) ELSE None,
          !.pre_rms_accum = 0,
          !.post_rms_accum = 0,
          !.rms_samples = 0]

\* GAIN_SMOOTHING_COEFF * smoothed_gain + (1 - GAIN_SMOOTHING_COEFF) * renorm_gain
SmoothedGain(r) ==
    IF r.smoothed_gain = r.renorm_gain THEN r.renorm_gain
    ELSE [from |-> r.smoothed_gain, toward |-> r.renorm_gain]

\* the renormalisation fields after one call on a sample with the squares
\* given
Renormed(r, pre_sq, post_sq) ==
    LET counted == [r EXCEPT
                      !.pre_rms_accum = @ + pre_sq,
                      !.post_rms_accum = @ + post_sq,
                      !.rms_samples = @ + 1,
                      !.calls = @ + 1]
        measured == IF counted.rms_samples >= RENORM_WINDOW
                    THEN WindowEnd(counted, counted.calls)
                    ELSE counted
    IN [measured EXCEPT !.smoothed_gain = SmoothedGain(measured)]

apply_post_filter_renorm(pre_sq, post_sq) ==
    /\ renorm.pc = "live"
    /\ renorm.samples_left > 0
    /\ renorm' = [Renormed(renorm, pre_sq, post_sq) EXCEPT
                    !.samples_left = @ - 1]
    /\ UNCHANGED <<gen, req_chan, res_chan, nw, nhist, nbudget, sn, fft_params,
                   ola>>
    /\ UNCHANGED deliveryVars

\* everything idle but the signal path, which starts as given
SignalInit(r, o) ==
    /\ DeliveryInit(0, 0, {1}, {"f32"}, {FALSE})
    /\ gen = NoGen
    /\ req_chan = <<>>
    /\ res_chan = <<>>
    /\ nw = NoNoiseWorker
    /\ nhist = NoNoiseHistory
    /\ nbudget = [calls |-> 0, panics |-> 0, silent |-> 0]
    /\ sn = NoEngine
    /\ fft_params = NoParams
    /\ renorm = r
    /\ ola = o

\* two measurement windows and one sample more
RenormInit ==
    SignalInit([NoRenorm EXCEPT !.samples_left = 2 * RENORM_WINDOW + 1], NoOla)

RenormNext ==
    \/ FftNoiseGenerator_renorm_new
    \/ \E pre_sq, post_sq \in Energies : apply_post_filter_renorm(pre_sq, post_sq)

RenormSpec == RenormInit /\ [][RenormNext]_vars

\* the renormalisation fields after n calls of FftNoiseGenerator::next on
\* samples with the squares given
RECURSIVE NextCalls(_, _, _, _)
NextCalls(r, n, pre_sq, post_sq) ==
    IF n = 0 THEN r
    ELSE NextCalls(Renormed(r, pre_sq, post_sq), n - 1, pre_sq, post_sq)

\* StreamingNoise::new with its base generator: with no sweep the
\* constructor calls next RENORM_WINDOW times and discards the samples
StreamingNoise_new_with_base(sweeps, pre_sq, post_sq) ==
    /\ sn.pc = "unbuilt"
    /\ sn' = NewEngine(sweeps, FALSE, FALSE, 0)
    /\ ola' = OlaState_new
    /\ renorm' = NextCalls(FreshRenorm,
                           IF sweeps = <<>> THEN RENORM_WINDOW ELSE 0,
                           pre_sq, post_sq)
    /\ UNCHANGED <<gen, req_chan, res_chan, nw, nhist, nbudget, fft_params>>
    /\ UNCHANGED deliveryVars

\* StreamingNoise::generate with its base generator: next is called once
\* for every base sample the call draws
generate_with_base(frames, input, pre_sq, post_sq) ==
    /\ GenerateCall(frames, input)
    /\ renorm' = NextCalls(renorm, sn'.drawn - sn.drawn, pre_sq, post_sq)
    /\ UNCHANGED <<gen, req_chan, res_chan, nw, nhist, nbudget, fft_params>>
    /\ UNCHANGED deliveryVars

\* an engine with its base generator, generating
BaseInit == EngineInitWith(0, MaxBlocks)

BaseNext ==
    \/ \E sweeps \in EngineInputs, pre_sq, post_sq \in Energies :
          StreamingNoise_new_with_base(sweeps, pre_sq, post_sq)
    \/ \E frames \in Frames, pre_sq, post_sq \in Energies :
          generate_with_base(frames, RingInput, pre_sq, post_sq)

BaseSpec == BaseInit /\ [][BaseNext]_vars

\* the makeup gain was assigned once, in a call the constructor made
LockedInWarmUp ==
    /\ renorm.renorm_initialized
    /\ Len(renorm.assigned) = 1
    /\ renorm.assigned[1].call <= sn.warmed_up

\* C31: for every configuration the makeup gain of the base generator is
\* locked by the warm-up when StreamingNoise::new returns, so that no call
\* of next that generate makes assigns it.
C31_GainLockedByWarmUp ==
    (sn.pc = "live" /\ renorm.pc = "live") => LockedInWarmUp

\* with no sweeps the warm-up has locked the makeup gain
C31_LockedWithoutSweeps ==
    (sn.pc = "live" /\ renorm.pc = "live" /\ sn.sweep_params = <<>>) =>
        LockedInWarmUp

\* C23: the makeup gain renorm_gain is assigned at most once, in the call
\* that completes the first measurement window: it is the initial 1 before
\* that call and the value assigned in it from then on.
C23_MakeupGainLockedOnce ==
    renorm.pc = "live" =>
       /\ Len(renorm.assigned) <= 1
       /\ Len(renorm.assigned) = 1 <=> renorm.calls >= RENORM_WINDOW
       /\ renorm.assigned = <<>> => renorm.renorm_gain = <<1, 1>>
       /\ renorm.assigned # <<>> =>
             /\ renorm.assigned[1].call = RENORM_WINDOW
             /\ renorm.renorm_gain = renorm.assigned[1].gain

\* a second window has ended whose target gain differs from the locked one
C23_Witness ==
    /\ renorm.pc = "live"
    /\ renorm.calls = 2 * RENORM_WINDOW
    /\ renorm.last_target # None
    /\ renorm.last_target # Some(renorm.renorm_gain)
    /\ Len(renorm.assigned) = 1

====
